---- MODULE Spec2Model ----
\* Verification model of the GridCal numerical-circuit compiler, bus
\* classification and linear-sensitivity engine.
\*
\*   SpecTypes    compile_types (Engine/Core/common_functions.py)
\*   SpecLinear   LinearAnalysis.run (Engine/Simulations/LinearFactors)
\*   SpecLodf     make_lodf on its own
\*   SpecCompile  compile_snapshot_opf_circuit (Engine/Core/snapshot_opf_data.py)
\*   SpecAlpha    compute_alpha (Engine/Simulations/NTC)
\*   SpecNtc      compute_ntc (Engine/Simulations/NTC)
\*   SpecStaticGenerator  StaticGeneratorData.get_island (Engine/Core/DataStructures)
\*   SpecIsland   SnapshotOpfData.get_island (Engine/Core/snapshot_opf_data.py)
\*   SpecStates   find_different_states (Engine/Core/common_functions.py)
\*   SpecOtdf     make_otdf_max (Engine/Simulations/LinearFactors)
\*   SpecPtdf     make_ptdf on its own
\*   SpecAnalysis LinearAnalysis: run(), OTDF reads and grid edits
\*   SpecLodfNx   make_lodf_nx (Engine/Simulations/LinearFactors)
\*   SpecUpfc     UPFC.change_base (Engine/Devices/upfc.py)
\*   SpecDriver   run() and cancel() of the threaded simulation drivers
\*
\* Arrays are functions over 0..n-1 (numpy's 0-based indices); index arrays
\* (pq, pv, ref, pqpv) are sequences, in the order numpy returns them.
EXTENDS Integers, Sequences, FiniteSets, TLC

VARIABLES
    pc,         \* position of the modelled call
    Sbus,       \* compile_types: array of power injections per node
    types,      \* compile_types: array of tentative node types (mutated in place)
    types_in,   \* the types array as it was handed to compile_types
    ref,        \* compile_types results
    pq,
    pv,
    pqpv,
    numerical_circuit,  \* LinearAnalysis: the compiled circuit (nbus, F, T, slack buses)
    distributed_slack,  \* LinearAnalysis constructor options
    correct_values,
    PTDF,               \* LinearAnalysis.PTDF (branches x buses)
    LODF,               \* LinearAnalysis.LODF (branches x branches)
    logger,             \* entries of the Logger, in the order they were added
    OTDF,               \* LinearAnalysis.__OTDF, the lazily computed OTDF matrix
    lodf_args,          \* make_lodf called on its own: its arguments
    lodf_result,        \* ... and the matrix it returned
    circuit,            \* compile_snapshot_opf_circuit: the MultiCircuit registry
    Vbus,               \* nc.bus_data.Vbus, the shared voltage guess (hundredths of p.u.)
    bus_types,          \* nc.bus_data.bus_types, the tentative bus types
    bus_types_in,       \* bus_types as get_bus_data left them
    branch_data,        \* nc.branch_data once get_branch_data has returned
    call,               \* a function called on its own: its name and arguments
    result              \* ... and what it returned (or the exception it raised)

varsTypes == <<Sbus, types, types_in, ref, pq, pv, pqpv>>
varsLinear == <<numerical_circuit, distributed_slack, correct_values, PTDF, LODF, logger, OTDF>>
varsLodf == <<lodf_args, lodf_result>>
varsCompile == <<circuit, Vbus, bus_types, bus_types_in, branch_data>>
varsCall == <<call, result>>
vars == <<pc, varsTypes, varsLinear, varsLodf, varsCompile, varsCall>>

\* ---------------------------------------------------------------------------
\* Bounds of the model
\* ---------------------------------------------------------------------------
\* number of buses handed to compile_types
NBusT == 3
\* injections range over -MaxInj..MaxInj
MaxInj == 2
\* buses and branches of the circuit handed to LinearAnalysis
NBusL == 4
MaxBrL == 2
\* make_lodf on its own: branches (= buses) of the PTDF handed to it, and the
\* number of its entries that are not zero
NLodf == 2
MaxNonZeroL == 2
\* compile_snapshot_opf_circuit: buses of the registry, devices of one class,
\* devices in all, and buses that get_bus_data does not type PQ
NBusC == 3
MaxPerClass == 1
MaxDevices == 2
MaxNonPQ == 1
\* compute_alpha: buses, and injections in -MaxInjA..MaxInjA
NBusA == 3
MaxInjA == 1
\* compute_ntc: branches, and rates in 1..MaxRate
NBrN == 2
MaxRate == 2
\* StaticGeneratorData: buses, devices and time steps
NBusS == 2
MaxStaGen == 2
MaxTimeS == 2
\* SnapshotOpfData.get_island: buses and devices of the parent circuit
NBusI == 2
MaxDevicesI == 2
MaxTimeF == 4
MaxDeviceF == 2
MaxBrO == 2
MaxBusO == 2
NumThreads == 2
ParallelThreshold == 500
NBusP == 3
MaxBrP == 3
MaxEdits == 1
NBrX == 3
MaxGroups == 2
MaxContingencies == 3
\* the threaded drivers: islands of the grid, and iterations per island
MaxIslands == 2
MaxPoints == 2

\* ---------------------------------------------------------------------------
\* Generic helpers on index arrays
\* ---------------------------------------------------------------------------
RECURSIVE SortedSeq(_)
\* the ascending sequence of a finite set of integers (np.where order)
SortedSeq(S) ==
    IF S = {} THEN <<>>
    ELSE LET m == CHOOSE x \in S : \A y \in S : x <= y
         IN  <<m>> \o SortedSeq(S \ {m})

SeqSet(s) == {s[k] : k \in 1..Len(s)}

\* np.delete(arr, np.where(arr == i)[0])
DeleteValue(arr, i) == SelectSeq(arr, LAMBDA x : x # i)

\* ---------------------------------------------------------------------------
\* Exact arithmetic for the float matrices: a value is a reduced fraction
\* <<n, d>> with d > 0, or NaN (what scipy's spsolve fills a singular solve
\* with). NaN propagates through arithmetic and fails every comparison.
\* ---------------------------------------------------------------------------
Abs(x) == IF x < 0 THEN 0 - x ELSE x

RECURSIVE GCD(_, _)
GCD(a, b) == IF b = 0 THEN a ELSE GCD(b, a % b)

NaN == <<0, 0>>
IsNaN(x) == x[2] = 0

Rat(n, d) ==
    IF d = 0 THEN NaN
    ELSE LET g == GCD(Abs(n), Abs(d))
             s == IF d < 0 THEN 0 - 1 ELSE 1
         IN  <<(s * n) \div g, (s * d) \div g>>

RZero == <<0, 1>>
ROne == <<1, 1>>
RMinusOne == <<0 - 1, 1>>

RAdd(x, y) == IF IsNaN(x) \/ IsNaN(y) THEN NaN ELSE Rat(x[1] * y[2] + y[1] * x[2], x[2] * y[2])
RNeg(x) == IF IsNaN(x) THEN NaN ELSE <<0 - x[1], x[2]>>
RSub(x, y) == RAdd(x, RNeg(y))
RMul(x, y) == IF IsNaN(x) \/ IsNaN(y) THEN NaN ELSE Rat(x[1] * y[1], x[2] * y[2])
RDiv(x, y) == IF IsNaN(x) \/ IsNaN(y) THEN NaN ELSE Rat(x[1] * y[2], x[2] * y[1])
\* x > y and x < y on floats (False when either is NaN)
RGt(x, y) == ~IsNaN(x) /\ ~IsNaN(y) /\ x[1] * y[2] > y[1] * x[2]
RLt(x, y) == RGt(y, x)

Range0(n) == 0..(n - 1)

\* an array held in memory: the function is evaluated once, entry by entry,
\* instead of on every read
Arr(f) == f @@ <<>>

RECURSIVE RSum(_, _)
\* sum of f[k] over the finite index set K
RSum(f, K) ==
    IF K = {} THEN RZero
    ELSE LET k == CHOOSE x \in K : TRUE
         IN  RAdd(f[k], RSum(f, K \ {k}))

\* scipy sparse * dense: only the stored (non-zero) entries of the sparse row
\* take part, so a NaN facing a structural zero does not spread
SparseDot(srow, dcol) ==
    LET K == {k \in DOMAIN srow : srow[k] # RZero}
    IN  RSum(Arr([k \in K |-> RMul(srow[k], dcol[k])]), K)

\* ---------------------------------------------------------------------------
\* Sparse direct solve (scipy.sparse.linalg.spsolve) on 1-based square
\* matrices given as sequences of rows
\* ---------------------------------------------------------------------------
Minor(A, j) ==
    Arr([i \in 1..(Len(A) - 1) |->
        Arr([k \in 1..(Len(A) - 1) |-> A[i + 1][IF k < j THEN k ELSE k + 1]])])

RECURSIVE Det(_)
Det(A) ==
    IF Len(A) = 0 THEN ROne
    ELSE IF Len(A) = 1 THEN A[1][1]
    ELSE RSum(Arr([j \in 1..Len(A) |->
                  RMul(IF j % 2 = 1 THEN A[1][j] ELSE RNeg(A[1][j]), Det(Minor(A, j)))]),
              1..Len(A))

ReplaceCol(A, j, b) ==
    Arr([i \in 1..Len(A) |-> Arr([k \in 1..Len(A) |-> IF k = j THEN b[i] ELSE A[i][k]])])

\* spsolve(A, B) for a dense right-hand side B (rows = equations): X with
\* A X = B; a singular A yields a result filled with NaN (and only a warning)
spsolve(A, B, ncols) ==
    LET dA == Det(A)
    IN  Arr([i \in 1..Len(A) |->
            Arr([c \in 1..ncols |->
                IF dA = RZero THEN NaN
                ELSE RDiv(Det(ReplaceCol(A, i, Arr([r \in 1..Len(A) |-> B[r][c]]))), dA)])])

\* ---------------------------------------------------------------------------
\* Bus classification: compile_types
\* ---------------------------------------------------------------------------
BusModePQ == 1
BusModePV == 2
BusModeSlack == 3

\* np.where(types == value)[0]
WhereType(ty, value) == SortedSeq({i \in DOMAIN ty : ty[i] = value})

\* max(Sbus[pv])
MaxOver(S, idx) ==
    CHOOSE m \in {S[idx[k]] : k \in 1..Len(idx)} :
        \A k \in 1..Len(idx) : S[idx[k]] <= m

\* np.where(Sbus == mx)[0][0]: the first index of the WHOLE array holding mx
FirstIndexOf(S, mx) ==
    CHOOSE i \in DOMAIN S : S[i] = mx /\ \A j \in DOMAIN S : S[j] = mx => i <= j

\* mutant: falls back to the last PV bus instead of the first
PromotedBus_LastPv(S, pv0) ==
    IF MaxOver(S, pv0) > 0 THEN FirstIndexOf(S, MaxOver(S, pv0)) ELSE pv0[Len(pv0)]

\* the bus chosen as slack when there is none (pv0 non-empty)
PromotedBus(S, pv0) ==
    IF MaxOver(S, pv0) > 0 THEN FirstIndexOf(S, MaxOver(S, pv0)) ELSE pv0[1]

\* the result record of compile_types(Sbus, types); types is mutated in place
compile_types(S, ty) ==
    LET pq0  == WhereType(ty, BusModePQ)
        pv0  == WhereType(ty, BusModePV)
        ref0 == WhereType(ty, BusModeSlack)
        promote == Len(ref0) = 0 /\ Len(pv0) > 0
        i    == PromotedBus(S, pv0)
        pv1  == IF promote THEN DeleteValue(pv0, i) ELSE pv0
        ref1 == IF promote THEN <<i>> ELSE ref0
        ty1  == IF Len(ref0) = 0
                THEN Arr([b \in DOMAIN ty |-> IF b \in SeqSet(ref1) THEN BusModeSlack ELSE ty[b]])
                ELSE ty
    IN  [ref |-> ref1, pq |-> pq0, pv |-> pv1,
         pqpv |-> SortedSeq(SeqSet(pq0) \cup SeqSet(pv1)), types |-> ty1]

BusesT == 0..(NBusT - 1)

IdleTypes ==
    /\ Sbus = <<>> /\ types = <<>> /\ types_in = <<>>
    /\ ref = <<>> /\ pq = <<>> /\ pv = <<>> /\ pqpv = <<>>

\* self.__OTDF = None
NoOtdf == [cached |-> FALSE, value |-> <<>>]

IdleLinear ==
    /\ numerical_circuit = <<>> /\ distributed_slack = FALSE /\ correct_values = FALSE
    /\ PTDF = <<>> /\ LODF = <<>> /\ logger = <<>> /\ OTDF = NoOtdf

IdleLodf == lodf_args = <<>> /\ lodf_result = <<>>

IdleCompile ==
    /\ circuit = <<>> /\ Vbus = <<>> /\ bus_types = <<>> /\ bus_types_in = <<>>
    /\ branch_data = <<>>

IdleCall == call = <<>> /\ result = <<>>

InitTypes ==
    /\ pc = "types_call"
    /\ IdleLinear /\ IdleLodf /\ IdleCompile /\ IdleCall
    /\ Sbus \in [BusesT -> (0 - MaxInj)..MaxInj]
    /\ types_in \in [BusesT -> {BusModePQ, BusModePV, BusModeSlack}]
    /\ types = types_in
    /\ ref = <<>> /\ pq = <<>> /\ pv = <<>> /\ pqpv = <<>>

CompileTypes ==
    /\ pc = "types_call"
    /\ LET r == compile_types(Sbus, types)
       IN  /\ ref' = r.ref /\ pq' = r.pq /\ pv' = r.pv /\ pqpv' = r.pqpv
           /\ types' = r.types
    /\ pc' = "types_done"
    /\ UNCHANGED <<varsCall, Sbus, types_in, varsLinear, varsLodf, varsCompile>>

NextTypes == CompileTypes

SpecTypes == InitTypes /\ [][NextTypes]_vars

\* ---------------------------------------------------------------------------
\* The compiled circuit and its islands, as LinearAnalysis.run receives them
\* from compile_snapshot_circuit / split_into_islands
\* ---------------------------------------------------------------------------
BranchSet(nc) == Range0(nc.nbr)

Adjacent(nc, b) ==
    {b} \cup {nc.T[k] : k \in {x \in BranchSet(nc) : nc.F[x] = b}}
        \cup {nc.F[k] : k \in {x \in BranchSet(nc) : nc.T[x] = b}}

RECURSIVE Reach(_, _)
Reach(nc, S) ==
    LET S2 == UNION {Adjacent(nc, b) : b \in S}
    IN  IF S2 = S THEN S ELSE Reach(nc, S2)

\* position (0-based) of value v in the ascending sequence idx
LocalIndex(idx, v) == (CHOOSE k \in 1..Len(idx) : idx[k] = v) - 1

\* the island of a bus set: freshly sliced arrays plus the back-references
IslandOf(nc, busset) ==
    LET bus_idx == SortedSeq(busset)
        br_idx  == SortedSeq({k \in BranchSet(nc) : nc.F[k] \in busset \/ nc.T[k] \in busset})
        n  == Len(bus_idx)
        m  == Len(br_idx)
        Fl == Arr([k \in Range0(m) |-> LocalIndex(bus_idx, nc.F[br_idx[k + 1]])])
        Tl == Arr([k \in Range0(m) |-> LocalIndex(bus_idx, nc.T[br_idx[k + 1]])])
        Cf == Arr([k \in Range0(m) |-> Arr([b \in Range0(n) |-> IF Fl[k] = b THEN ROne ELSE RZero])])
        Ct == Arr([k \in Range0(m) |-> Arr([b \in Range0(n) |-> IF Tl[k] = b THEN ROne ELSE RZero])])
        Bf == Arr([k \in Range0(m) |-> Arr([b \in Range0(n) |-> RSub(Cf[k][b], Ct[k][b])])])
        Bbus == Arr([a \in Range0(n) |-> Arr([b \in Range0(n) |->
                    RSum(Arr([k \in Range0(m) |-> RMul(Bf[k][a], Bf[k][b])]), Range0(m))])])
    IN  [nbus |-> n, nbr |-> m,
         original_bus_idx |-> bus_idx, original_branch_idx |-> br_idx,
         F |-> Fl, T |-> Tl, Cf |-> Cf, Ct |-> Ct, Bf |-> Bf, Bbus |-> Bbus,
         vd   |-> SortedSeq({LocalIndex(bus_idx, b) : b \in busset \cap nc.slack}),
         pqpv |-> SortedSeq({LocalIndex(bus_idx, b) : b \in busset \ nc.slack})]

RECURSIVE IslandsFrom(_, _)
\* islands in the order of their lowest bus
IslandsFrom(nc, left) ==
    IF left = {} THEN <<>>
    ELSE LET b == CHOOSE x \in left : \A y \in left : x <= y
             comp == Reach(nc, {b})
         IN  <<IslandOf(nc, comp)>> \o IslandsFrom(nc, left \ comp)

split_into_islands(nc) == IslandsFrom(nc, Range0(nc.nbus))

\* ---------------------------------------------------------------------------
\* make_ptdf
\* ---------------------------------------------------------------------------
\* the perturbation matrix dP (n x n)
MakeDP(n, distribute_slack) ==
    Arr([i \in Range0(n) |-> Arr([j \in Range0(n) |->
        IF i = j THEN ROne
        ELSE IF distribute_slack THEN Rat(0 - 1, n - 1) ELSE RZero])])

\* mutant: the equations kept are those of the buses noref, not of pqpv
make_ptdf_dTheta_RowsNoref(Bbus, pqpv0, distribute_slack) ==
    LET n       == Cardinality(DOMAIN Bbus)
        noref   == Arr([k \in 1..(n - 1) |-> k])
        dP      == MakeDP(n, distribute_slack)
        Bref    == Arr([r \in 1..Len(noref) |-> Arr([c \in 1..Len(noref) |-> Bbus[noref[r]][noref[c]]])])
        rhs     == Arr([r \in 1..Len(noref) |-> Arr([c \in 1..n |-> dP[noref[r]][c - 1]])])
        dtheta_ref == spsolve(Bref, rhs, n)
    IN  Arr([b \in Range0(n) |-> Arr([j \in Range0(n) |->
            IF b \in SeqSet(noref) THEN dtheta_ref[b][j + 1] ELSE RZero])])

\* dTheta (buses x injections): the solved change in voltage angles;
\* pqpv0 holds as many buses as noref (n - 1)
make_ptdf_dTheta(Bbus, pqpv0, distribute_slack) ==
    LET n       == Cardinality(DOMAIN Bbus)
        noref   == Arr([k \in 1..(n - 1) |-> k])
        noslack == pqpv0
        dP      == MakeDP(n, distribute_slack)
        Bref    == Arr([r \in 1..Len(noslack) |-> Arr([c \in 1..Len(noref) |-> Bbus[noslack[r]][noref[c]]])])
        rhs     == Arr([r \in 1..Len(noslack) |-> Arr([c \in 1..n |-> dP[noslack[r]][c - 1]])])
        dtheta_ref == spsolve(Bref, rhs, n)
    IN  Arr([b \in Range0(n) |-> Arr([j \in Range0(n) |->
            IF b \in SeqSet(noref) THEN dtheta_ref[b][j + 1] ELSE RZero])])

\* PTDF (branches x buses): H = Bf * dTheta
make_ptdf(Bbus, Bf, pqpv0, distribute_slack) ==
    LET n      == Cardinality(DOMAIN Bbus)
        dTheta == make_ptdf_dTheta(Bbus, pqpv0, distribute_slack)
    IN  Arr([k \in DOMAIN Bf |-> Arr([j \in Range0(n) |->
            SparseDot(Bf[k], Arr([b \in Range0(n) |-> dTheta[b][j]]))])])

\* ---------------------------------------------------------------------------
\* make_lodf
\* ---------------------------------------------------------------------------
\* abs(x) > numerical_zero for the default numerical_zero = 1e-10, written
\* |n| * 10^5 > d / 10^5 to stay inside 32-bit integers
ExceedsNumericalZero(x) ==
    ~IsNaN(x) /\ Abs(x[1]) * 100000 > x[2] \div 100000

\* H = PTDF * (Cf - Ct).T, a sparse product on the stored entries of Cf - Ct
MakeH(Cf, Ct, ptdf) ==
    Arr([i \in DOMAIN ptdf |-> Arr([j \in DOMAIN Cf |->
        SparseDot(Arr([b \in DOMAIN Cf[j] |-> RSub(Cf[j][b], Ct[j][b])]), ptdf[i])])])

\* LODF[LODF > 1.2] = 0 ; LODF[LODF < -1.2] = 0
CorrectValue(x) ==
    IF RGt(x, <<6, 5>>) \/ RLt(x, <<0 - 6, 5>>) THEN RZero ELSE x

\* mutant: the diagonal is not forced to -1
make_lodf_NoDiagonal(Cf, Ct, ptdf, correct) ==
    LET H   == MakeH(Cf, Ct, ptdf)
        div == Arr([j \in DOMAIN ptdf |-> RSub(ROne, H[j][j])])
        L0  == Arr([i \in DOMAIN ptdf |-> Arr([j \in DOMAIN ptdf |->
                  IF ExceedsNumericalZero(div[j]) THEN RDiv(H[i][j], div[j]) ELSE RZero])])
    IN  Arr([i \in DOMAIN ptdf |-> Arr([j \in DOMAIN ptdf |->
            IF correct THEN CorrectValue(L0[i][j]) ELSE L0[i][j]])])

\* mutant: divides without the numerical-zero guard
make_lodf_NoGuard(Cf, Ct, ptdf, correct) ==
    LET H   == MakeH(Cf, Ct, ptdf)
        div == Arr([j \in DOMAIN ptdf |-> RSub(ROne, H[j][j])])
        L1  == Arr([i \in DOMAIN ptdf |-> Arr([j \in DOMAIN ptdf |->
                  IF i = j THEN RMinusOne ELSE RDiv(H[i][j], div[j])])])
    IN  Arr([i \in DOMAIN ptdf |-> Arr([j \in DOMAIN ptdf |->
            IF correct THEN CorrectValue(L1[i][j]) ELSE L1[i][j]])])

\* LODF (branches x branches), numerical_zero at its default
make_lodf(Cf, Ct, ptdf, correct) ==
    LET H   == MakeH(Cf, Ct, ptdf)
        div == Arr([j \in DOMAIN ptdf |-> RSub(ROne, H[j][j])])
        L0  == Arr([i \in DOMAIN ptdf |-> Arr([j \in DOMAIN ptdf |->
                  IF ExceedsNumericalZero(div[j]) THEN RDiv(H[i][j], div[j]) ELSE RZero])])
        L1  == Arr([i \in DOMAIN ptdf |-> Arr([j \in DOMAIN ptdf |->
                  IF i = j THEN RMinusOne ELSE L0[i][j]])])
    IN  Arr([i \in DOMAIN ptdf |-> Arr([j \in DOMAIN ptdf |->
            IF correct THEN CorrectValue(L1[i][j]) ELSE L1[i][j]])])

\* ---------------------------------------------------------------------------
\* LinearAnalysis.run
\* ---------------------------------------------------------------------------
ZeroMatrix(nrows, ncols) == Arr([i \in Range0(nrows) |-> Arr([j \in Range0(ncols) |-> RZero])])

\* M[np.ix_(ridx, cidx)] = block
Scatter(M, ridx, cidx, block) ==
    Arr([i \in DOMAIN M |-> Arr([j \in DOMAIN M[i] |->
        IF i \in SeqSet(ridx) /\ j \in SeqSet(cidx)
        THEN block[LocalIndex(ridx, i)][LocalIndex(cidx, j)]
        ELSE M[i][j]])])

LogEntry(severity, msg, device) == [severity |-> severity, msg |-> msg, device |-> device]

\* mutant: an island without slack bus aborts the loop body of its successors
\* by being treated as a multi-slack error that also clears the results
ProcessIsland_ZeroOnError(island, n_island, st, ds, cv) ==
    IF Len(island.vd) = 1 /\ Len(island.pqpv) > 0
    THEN LET ptdf_island == make_ptdf(island.Bbus, island.Bf, island.pqpv, ds)
             lodf_island == make_lodf(island.Cf, island.Ct, ptdf_island, cv)
         IN  [PTDF   |-> Scatter(st.PTDF, island.original_branch_idx,
                                 island.original_bus_idx, ptdf_island),
              LODF   |-> Scatter(st.LODF, island.original_branch_idx,
                                 island.original_branch_idx, lodf_island),
              logger |-> st.logger]
    ELSE [PTDF   |-> Arr([i \in DOMAIN st.PTDF |-> Arr([j \in DOMAIN st.PTDF[i] |-> RZero])]),
          LODF   |-> Arr([i \in DOMAIN st.LODF |-> Arr([j \in DOMAIN st.LODF[i] |-> RZero])]),
          logger |-> Append(st.logger, LogEntry("error", "More than one slack bus", n_island))]

\* mutant: a skipped island logs nothing
ProcessIsland_Silent(island, n_island, st, ds, cv) ==
    IF Len(island.vd) = 1 /\ Len(island.pqpv) > 0
    THEN LET ptdf_island == make_ptdf(island.Bbus, island.Bf, island.pqpv, ds)
             lodf_island == make_lodf(island.Cf, island.Ct, ptdf_island, cv)
         IN  [PTDF   |-> Scatter(st.PTDF, island.original_branch_idx,
                                 island.original_bus_idx, ptdf_island),
              LODF   |-> Scatter(st.LODF, island.original_branch_idx,
                                 island.original_branch_idx, lodf_island),
              logger |-> st.logger]
    ELSE st

\* one pass of the loop body over islands (n_island is enumerate's index)
ProcessIsland(island, n_island, st, ds, cv) ==
    IF Len(island.vd) = 1
    THEN IF Len(island.pqpv) > 0
         THEN LET ptdf_island == make_ptdf(island.Bbus, island.Bf, island.pqpv, ds)
                  lodf_island == make_lodf(island.Cf, island.Ct, ptdf_island, cv)
              IN  [PTDF   |-> Scatter(st.PTDF, island.original_branch_idx,
                                      island.original_bus_idx, ptdf_island),
                   LODF   |-> Scatter(st.LODF, island.original_branch_idx,
                                      island.original_branch_idx, lodf_island),
                   logger |-> st.logger]
         ELSE [st EXCEPT !.logger = Append(@, LogEntry("error", "No PQ or PV nodes", n_island))]
    ELSE IF Len(island.vd) = 0
         THEN [st EXCEPT !.logger = Append(@, LogEntry("warning", "No slack bus", n_island))]
         ELSE [st EXCEPT !.logger = Append(@, LogEntry("error", "More than one slack bus", n_island))]

RECURSIVE RunIslands(_, _, _, _, _)
RunIslands(islands, k, st, ds, cv) ==
    IF k > Len(islands) THEN st
    ELSE RunIslands(islands, k + 1, ProcessIsland(islands[k], k - 1, st, ds, cv), ds, cv)

\* one branch orientation (from, to) per pair of distinct buses: from < to when
\* from + to is odd, from > to when it is even
BusPairs(n) ==
    {p \in Range0(n) \X Range0(n) :
        p[1] # p[2] /\ ((p[1] < p[2]) <=> ((p[1] + p[2]) % 2 = 1))}
PairLeq(a, b) == a[1] < b[1] \/ (a[1] = b[1] /\ a[2] <= b[2])

\* branch lists of up to MaxBrL branches, listed in non-decreasing pair order
BranchLists(n) ==
    UNION {{s \in [1..m -> BusPairs(n)] : \A k \in 1..(m - 1) : PairLeq(s[k], s[k + 1])}
           : m \in 0..MaxBrL}

Circuit(n, s, slackset) ==
    [nbus |-> n, nbr |-> Len(s),
     F |-> [k \in Range0(Len(s)) |-> s[k + 1][1]],
     T |-> [k \in Range0(Len(s)) |-> s[k + 1][2]],
     slack |-> slackset]

\* the circuits LinearAnalysis is constructed on: NBusL buses, or none at all
Circuits ==
    {Circuit(NBusL, s, sl) : s \in BranchLists(NBusL), sl \in SUBSET Range0(NBusL)}
        \cup {Circuit(0, <<>>, {})}

InitLinear ==
    /\ pc = "la_constructed"
    /\ IdleTypes /\ IdleLodf /\ IdleCompile /\ IdleCall
    /\ numerical_circuit \in Circuits
    /\ distributed_slack \in BOOLEAN
    /\ correct_values \in BOOLEAN
    /\ PTDF = <<>> /\ LODF = <<>> /\ logger = <<>> /\ OTDF = NoOtdf

Run ==
    /\ pc = "la_constructed"
    /\ LET islands == split_into_islands(numerical_circuit)
           st0 == [PTDF   |-> ZeroMatrix(numerical_circuit.nbr, numerical_circuit.nbus),
                   LODF   |-> ZeroMatrix(numerical_circuit.nbr, numerical_circuit.nbr),
                   logger |-> logger]
       IN  IF Len(islands) > 0
           THEN LET st == RunIslands(islands, 1, st0, distributed_slack, correct_values)
                IN  /\ PTDF' = st.PTDF /\ LODF' = st.LODF /\ logger' = st.logger
                    /\ pc' = "la_done"
           ELSE \* islands[0] on an empty list: IndexError
                /\ PTDF' = st0.PTDF /\ LODF' = st0.LODF /\ logger' = logger
                /\ pc' = "la_raised"
    /\ UNCHANGED <<varsCall, varsTypes, varsLodf, varsCompile, numerical_circuit, distributed_slack,
                   correct_values, OTDF>>

NextLinear == Run

SpecLinear == InitLinear /\ [][NextLinear]_vars

\* ---------------------------------------------------------------------------
\* make_lodf called on its own, on PTDF matrices that need not come from
\* make_ptdf
\* ---------------------------------------------------------------------------
PtdfValues == {<<0 - 1, 1>>, <<1, 2>>, <<1, 1>>, NaN}

\* the NLodf x NLodf matrices with at most MaxNonZeroL non-zero entries
PtdfInputs ==
    LET Pos == Range0(NLodf) \X Range0(NLodf)
    IN  UNION {{Arr([i \in Range0(NLodf) |-> Arr([j \in Range0(NLodf) |->
                    IF <<i, j>> \in P THEN v[<<i, j>>] ELSE RZero])])
                : v \in [P -> PtdfValues]}
               : P \in {Q \in SUBSET Pos : Cardinality(Q) <= MaxNonZeroL}}

\* Cf, Ct of NLodf branches over NLodf buses
IncidenceInputs ==
    {[Cf |-> Arr([k \in Range0(NLodf) |-> Arr([b \in Range0(NLodf) |->
                    IF s[k + 1][1] = b THEN ROne ELSE RZero])]),
      Ct |-> Arr([k \in Range0(NLodf) |-> Arr([b \in Range0(NLodf) |->
                    IF s[k + 1][2] = b THEN ROne ELSE RZero])])]
     : s \in {x \in [1..NLodf -> BusPairs(NLodf)] :
                \A k \in 1..(NLodf - 1) : PairLeq(x[k], x[k + 1])}}

InitLodf ==
    /\ pc = "lodf_call"
    /\ IdleTypes /\ IdleLinear /\ IdleCompile /\ IdleCall
    /\ lodf_args \in {[Cf |-> c.Cf, Ct |-> c.Ct, PTDF |-> p, correct_values |-> cv]
                      : c \in IncidenceInputs, p \in PtdfInputs, cv \in BOOLEAN}
    /\ lodf_result = <<>>

CallMakeLodf ==
    /\ pc = "lodf_call"
    /\ lodf_result' = make_lodf(lodf_args.Cf, lodf_args.Ct, lodf_args.PTDF,
                                lodf_args.correct_values)
    /\ pc' = "lodf_done"
    /\ UNCHANGED <<varsCall, varsTypes, varsLinear, varsCompile, lodf_args>>

NextLodf == CallMakeLodf

SpecLodf == InitLodf /\ [][NextLodf]_vars

\* ---------------------------------------------------------------------------
\* compile_snapshot_opf_circuit and the get_*_data compilers it calls
\* (Engine/Core/snapshot_opf_data.py, Engine/Core/Compilers/circuit_to_data.py)
\*
\* A bus is its registry index (bus_dict[elm.bus]).  Voltages are integers in
\* hundredths of p.u.; every set point is real, so a Vbus entry is its real
\* part and its imaginary part is 0.
\* ---------------------------------------------------------------------------
\* the literal 1.0 the compilers compare Vbus[i, 0].real with
VoltageOne == 100

\* compile_snapshot_opf_circuit(circuit, ..., use_stored_guess=False)
use_stored_guess == FALSE

\* Bus.get_voltage_guess(None, use_stored_guess=False): the flat start
get_voltage_guess == VoltageOne

BusesC == Range0(NBusC)

\* logger.add_error('Different set points', elm.bus.name, elm.Vset, Vbus[i, 0])
LogSetPoints(device, value, expected_value) ==
    [severity |-> "error", msg |-> "Different set points", device |-> device,
     value |-> value, expected_value |-> expected_value]

\* the set-point block of one generator, battery or shunt on bus i;
\* st is [Vbus, logger]
SetPoint(st, i, Vset) ==
    IF use_stored_guess THEN st
    ELSE IF st.Vbus[i] = VoltageOne
         THEN [st EXCEPT !.Vbus[i] = Vset]
         ELSE IF Vset # st.Vbus[i]
              THEN [st EXCEPT !.logger = Append(@, LogSetPoints(i, Vset, st.Vbus[i]))]
              ELSE st

\* for k, elm in enumerate(devices): ... the set-point block
RECURSIVE SetPoints(_, _, _)
SetPoints(devices, k, st) ==
    IF k > Len(devices) THEN st
    ELSE SetPoints(devices, k + 1, SetPoint(st, devices[k].bus, devices[k].Vset))

get_generator_data(c, V, log) == SetPoints(c.generators, 1, [Vbus |-> V, logger |-> log])

get_battery_data(c, V, log) == SetPoints(c.batteries, 1, [Vbus |-> V, logger |-> log])

get_shunt_data(c, V, log) == SetPoints(c.shunts, 1, [Vbus |-> V, logger |-> log])

\* BranchData(nbr, nbus): F, T and the incidence matrices start as zeros
BranchData(nbr, nbus) ==
    [nbr |-> nbr,
     F |-> Arr([i \in Range0(nbr) |-> 0]),
     T |-> Arr([i \in Range0(nbr) |-> 0]),
     C_branch_bus_f |-> Arr([i \in Range0(nbr) |-> Arr([b \in Range0(nbus) |-> 0])]),
     C_branch_bus_t |-> Arr([i \in Range0(nbr) |-> Arr([b \in Range0(nbus) |-> 0])])]

\* data.C_branch_bus_f[ii, f] = 1; data.C_branch_bus_t[ii, t] = 1;
\* data.F[ii] = f; data.T[ii] = t
SetBranch(data, ii, f, t) ==
    [data EXCEPT !.C_branch_bus_f[ii][f] = 1, !.C_branch_bus_t[ii][t] = 1,
                 !.F[ii] = f, !.T[ii] = t]

\* for i, elm in enumerate(devices): ii = i + offset; ...
RECURSIVE CompileBranches(_, _, _, _)
CompileBranches(devices, k, offset, data) ==
    IF k > Len(devices) THEN data
    ELSE CompileBranches(devices, k + 1, offset,
                         SetBranch(data, (k - 1) + offset,
                                   devices[k].bus_from, devices[k].bus_to))

\* mutant: the transformers start where the DC lines start
BranchOffsets_NoDcLines(c) ==
    [lines          |-> 0,
     dc_lines       |-> Len(c.lines),
     transformers2w |-> Len(c.lines),
     vsc_devices    |-> Len(c.lines) + Len(c.transformers2w),
     upfc_devices   |-> Len(c.lines) + Len(c.transformers2w) + Len(c.vsc_devices)]

\* offset = nline; offset += ndcline; offset += ntr; offset += nvsc
BranchOffsets(c) ==
    [lines          |-> 0,
     dc_lines       |-> Len(c.lines),
     transformers2w |-> Len(c.lines) + Len(c.dc_lines),
     vsc_devices    |-> Len(c.lines) + Len(c.dc_lines) + Len(c.transformers2w),
     upfc_devices   |-> Len(c.lines) + Len(c.dc_lines) + Len(c.transformers2w)
                            + Len(c.vsc_devices)]

\* the set-point block of one transformer
TransformerSetPoint(V, elm) ==
    IF use_stored_guess THEN V
    ELSE IF elm.control_mode = "Vt" THEN [V EXCEPT ![elm.bus_to] = elm.vset]
    ELSE IF elm.control_mode = "PtVt" THEN [V EXCEPT ![elm.bus_to] = elm.vset]
    ELSE V

RECURSIVE TransformerSetPoints(_, _, _)
TransformerSetPoints(devices, k, V) ==
    IF k > Len(devices) THEN V
    ELSE TransformerSetPoints(devices, k + 1, TransformerSetPoint(V, devices[k]))

\* the set-point block of one VSC converter
VscSetPoint(V, elm) ==
    IF use_stored_guess THEN V
    ELSE CASE elm.control_mode = "type_I_1"   -> [V EXCEPT ![elm.bus_to] = elm.Vac_set]
           [] elm.control_mode = "type_I_3"   -> [V EXCEPT ![elm.bus_to] = elm.Vac_set]
           [] elm.control_mode = "type_II_4"  -> [V EXCEPT ![elm.bus_from] = elm.Vdc_set]
           [] elm.control_mode = "type_II_5"  ->
                    [[V EXCEPT ![elm.bus_from] = elm.Vdc_set] EXCEPT ![elm.bus_to] = elm.Vac_set]
           [] elm.control_mode = "type_III_7" -> [V EXCEPT ![elm.bus_to] = elm.Vac_set]
           [] elm.control_mode = "type_IV_I"  -> [V EXCEPT ![elm.bus_from] = elm.Vdc_set]
           [] OTHER -> V

RECURSIVE VscSetPoints(_, _, _)
VscSetPoints(devices, k, V) ==
    IF k > Len(devices) THEN V
    ELSE VscSetPoints(devices, k + 1, VscSetPoint(V, devices[k]))

\* UPFC.get_ysh1: 1.0 / complex(Rsh, Xsh); complex division by zero raises
\* ZeroDivisionError
get_ysh1(elm) ==
    IF elm.Rsh = 0 /\ elm.Xsh = 0 THEN [raised |-> TRUE]
    ELSE [raised |-> FALSE,
          real |-> Rat(elm.Rsh, elm.Rsh * elm.Rsh + elm.Xsh * elm.Xsh),
          imag |-> Rat(0 - elm.Xsh, elm.Rsh * elm.Rsh + elm.Xsh * elm.Xsh)]

\* get_branch_data: Vbus is written in place, so it keeps the writes made
\* before an exception; data is returned only when nothing was raised
get_branch_data(c, V) ==
    LET nbr == Len(c.lines) + Len(c.transformers2w) + Len(c.vsc_devices)
                 + Len(c.dc_lines) + Len(c.upfc_devices)
        offset == BranchOffsets(c)
        d1 == CompileBranches(c.lines, 1, offset.lines, BranchData(nbr, NBusC))
        d2 == CompileBranches(c.dc_lines, 1, offset.dc_lines, d1)
        d3 == CompileBranches(c.transformers2w, 1, offset.transformers2w, d2)
        V3 == TransformerSetPoints(c.transformers2w, 1, V)
        d4 == CompileBranches(c.vsc_devices, 1, offset.vsc_devices, d3)
        V4 == VscSetPoints(c.vsc_devices, 1, V3)
        d5 == CompileBranches(c.upfc_devices, 1, offset.upfc_devices, d4)
        raised == \E k \in 1..Len(c.upfc_devices) :
                      get_ysh1(c.upfc_devices[k]).raised
    IN  [raised |-> raised, Vbus |-> V4, data |-> IF raised THEN <<>> ELSE d5]

\* mutant: only the from bus of an HVDC link is forced to PV
HvdcTypes_FromOnly(ty, elm) ==
    IF elm.active
    THEN [ty EXCEPT ![elm.bus_from] = BusModePV]
    ELSE ty

\* if elm.active: bus_types[f] = PV; bus_types[t] = PV
HvdcTypes(ty, elm) ==
    IF elm.active
    THEN [[ty EXCEPT ![elm.bus_from] = BusModePV] EXCEPT ![elm.bus_to] = BusModePV]
    ELSE ty

RECURSIVE get_hvdc_data(_, _, _)
get_hvdc_data(devices, k, ty) ==
    IF k > Len(devices) THEN ty
    ELSE get_hvdc_data(devices, k + 1, HvdcTypes(ty, devices[k]))

\* --- the registries handed to the compiler ---------------------------------
VsetValues == {VoltageOne, 105}

TransformerControlType == {"fixed", "Vt", "PtVt"}

ConverterControlType ==
    {"type_0_free", "type_I_1", "type_I_2", "type_I_3", "type_II_4", "type_II_5",
     "type_III_6", "type_III_7", "type_IV_I"}

ClassNames ==
    <<"generators", "batteries", "shunts", "lines", "dc_lines", "transformers2w",
      "vsc_devices", "upfc_devices", "hvdc_lines">>

BranchEnds == {[bus_from |-> p[1], bus_to |-> p[2]] : p \in BusPairs(NBusC)}

DevicesOf(class) ==
    CASE class \in {"generators", "batteries", "shunts"} ->
            {[bus |-> b, Vset |-> v] : b \in BusesC, v \in VsetValues}
      [] class \in {"lines", "dc_lines"} -> BranchEnds
      [] class = "transformers2w" ->
            {[bus_from |-> e.bus_from, bus_to |-> e.bus_to, control_mode |-> m, vset |-> v]
                : e \in BranchEnds, m \in TransformerControlType, v \in VsetValues}
      [] class = "vsc_devices" ->
            {[bus_from |-> e.bus_from, bus_to |-> e.bus_to, control_mode |-> m,
              Vac_set |-> va, Vdc_set |-> vd]
                : e \in BranchEnds, m \in ConverterControlType,
                  va \in VsetValues, vd \in VsetValues}
      [] class = "upfc_devices" ->
            \* Rsh = Xsh = 0 is the constructor default (rp=0.0, xp=0.0)
            {[bus_from |-> e.bus_from, bus_to |-> e.bus_to, Rsh |-> z, Xsh |-> z]
                : e \in BranchEnds, z \in {0, 1}}
      [] class = "hvdc_lines" ->
            {[bus_from |-> e.bus_from, bus_to |-> e.bus_to, active |-> a]
                : e \in BranchEnds, a \in BOOLEAN}

TaggedDevices ==
    UNION {{[class |-> i, elm |-> d] : d \in DevicesOf(ClassNames[i])}
           : i \in DOMAIN ClassNames}

\* up to MaxDevices devices, at most MaxPerClass of one class, class by class
DeviceLists ==
    {s \in UNION {[1..k -> TaggedDevices] : k \in 0..MaxDevices} :
        /\ \A k \in 1..(Len(s) - 1) : s[k].class <= s[k + 1].class
        /\ \A i \in DOMAIN ClassNames :
              Cardinality({k \in DOMAIN s : s[k].class = i}) <= MaxPerClass}

DevicesIn(s, i) ==
    LET sel == SelectSeq(s, LAMBDA x : x.class = i)
    IN  [k \in 1..Len(sel) |-> sel[k].elm]

MultiCircuit(s) ==
    [generators     |-> DevicesIn(s, 1),
     batteries      |-> DevicesIn(s, 2),
     shunts         |-> DevicesIn(s, 3),
     lines          |-> DevicesIn(s, 4),
     dc_lines       |-> DevicesIn(s, 5),
     transformers2w |-> DevicesIn(s, 6),
     vsc_devices    |-> DevicesIn(s, 7),
     upfc_devices   |-> DevicesIn(s, 8),
     hvdc_lines     |-> DevicesIn(s, 9)]

MultiCircuits == {MultiCircuit(s) : s \in DeviceLists}

\* bus.determine_bus_type().value of every bus: at most MaxNonPQ buses are
\* not PQ
BusTypeInputs ==
    {ty \in [BusesC -> {BusModePQ, BusModePV, BusModeSlack}] :
        Cardinality({b \in BusesC : ty[b] # BusModePQ}) <= MaxNonPQ}

\* --- compile_snapshot_opf_circuit, one action per get_*_data call ----------
\* the state once get_bus_data has returned
InitCompile ==
    /\ pc = "bus_data"
    /\ IdleTypes /\ IdleLinear /\ IdleLodf /\ IdleCall
    /\ circuit \in MultiCircuits
    /\ Vbus = [b \in BusesC |-> get_voltage_guess]
    /\ bus_types \in BusTypeInputs
    /\ bus_types_in = bus_types
    /\ branch_data = <<>>

GetGeneratorData ==
    /\ pc = "bus_data"
    /\ LET st == get_generator_data(circuit, Vbus, logger)
       IN  Vbus' = st.Vbus /\ logger' = st.logger
    /\ pc' = "generator_data"
    /\ UNCHANGED <<varsCall, varsTypes, varsLodf, numerical_circuit, distributed_slack,
                   correct_values, PTDF, LODF, OTDF, circuit, bus_types, bus_types_in,
                   branch_data>>

GetBatteryData ==
    /\ pc = "generator_data"
    /\ LET st == get_battery_data(circuit, Vbus, logger)
       IN  Vbus' = st.Vbus /\ logger' = st.logger
    /\ pc' = "battery_data"
    /\ UNCHANGED <<varsCall, varsTypes, varsLodf, numerical_circuit, distributed_slack,
                   correct_values, PTDF, LODF, OTDF, circuit, bus_types, bus_types_in,
                   branch_data>>

GetShuntData ==
    /\ pc = "battery_data"
    /\ LET st == get_shunt_data(circuit, Vbus, logger)
       IN  Vbus' = st.Vbus /\ logger' = st.logger
    /\ pc' = "shunt_data"
    /\ UNCHANGED <<varsCall, varsTypes, varsLodf, numerical_circuit, distributed_slack,
                   correct_values, PTDF, LODF, OTDF, circuit, bus_types, bus_types_in,
                   branch_data>>

\* get_line_data .. get_dc_line_data fill their own arrays and write nothing
\* shared, so they are no step of their own (get_upfc_data reads elm.Rl, elm.Xl
\* and elm.Bl, which Devices/upfc.py does not assign; whether the base class
\* supplies them is outside the sources at hand).  get_branch_data either
\* returns nc.branch_data or lets the exception of get_ysh1 escape.
GetBranchData ==
    /\ pc = "shunt_data"
    /\ LET r == get_branch_data(circuit, Vbus)
       IN  /\ Vbus' = r.Vbus
           /\ branch_data' = r.data
           /\ pc' = IF r.raised THEN "compile_raised" ELSE "branch_data"
    /\ UNCHANGED <<varsCall, varsTypes, varsLinear, varsLodf, circuit, bus_types, bus_types_in>>

GetHvdcData ==
    /\ pc = "branch_data"
    /\ bus_types' = get_hvdc_data(circuit.hvdc_lines, 1, bus_types)
    /\ pc' = "hvdc_data"
    /\ UNCHANGED <<varsCall, varsTypes, varsLinear, varsLodf, circuit, Vbus, bus_types_in,
                   branch_data>>

NextCompile ==
    \/ GetGeneratorData
    \/ GetBatteryData
    \/ GetShuntData
    \/ GetBranchData
    \/ GetHvdcData

SpecCompile == InitCompile /\ [][NextCompile]_vars

\* ---------------------------------------------------------------------------
\* compute_alpha (Engine/Simulations/NTC/net_transfer_capacity_driver.py)
\* ---------------------------------------------------------------------------
\* bus_types[i] == 2 or bus_types[i] == 3
IsPvOrSlack(ty, i) == ty[i] = BusModePV \/ ty[i] = BusModeSlack

\* n += P0[i] over the PV and slack buses of idx
RECURSIVE SumDispatchable(_, _, _, _)
SumDispatchable(P0, idx, ty, k) ==
    IF k > Len(idx) THEN RZero
    ELSE RAdd(IF IsPvOrSlack(ty, idx[k]) THEN P0[idx[k]] ELSE RZero,
              SumDispatchable(P0, idx, ty, k + 1))

\* for i in idx: if PV or slack: dP[i] = factor * P0[i] / abs(n)
RECURSIVE Perturb(_, _, _, _, _, _, _)
Perturb(dP, P0, idx, ty, k, factor, n) ==
    IF k > Len(idx) THEN dP
    ELSE Perturb(IF IsPvOrSlack(ty, idx[k])
                 THEN [dP EXCEPT ![idx[k]] =
                          RDiv(RMul(factor, P0[idx[k]]), IF RLt(n, RZero) THEN RNeg(n) ELSE n)]
                 ELSE dP,
                 P0, idx, ty, k + 1, factor, n)

\* compute_alpha is compiled with numba (nopython, python error model): the
\* float division by abs(n) = 0.0 raises ZeroDivisionError
compute_alpha(ptdf, P0, idx1, idx2, ty, dT) ==
    LET nbr == Len(ptdf)
        buses == DOMAIN P0
        n1 == SumDispatchable(P0, idx1, ty, 1)
        n2 == SumDispatchable(P0, idx2, ty, 1)
        div1 == \E k \in DOMAIN idx1 : IsPvOrSlack(ty, idx1[k])
        div2 == \E k \in DOMAIN idx2 : IsPvOrSlack(ty, idx2[k])
        dP0 == Arr([i \in buses |-> RZero])
        dP1 == Perturb(dP0, P0, idx1, ty, 1, dT, n1)
        dP2 == Perturb(dP1, P0, idx2, ty, 1, RNeg(dT), n2)
    IN  IF (div1 /\ n1 = RZero) \/ (div2 /\ n2 = RZero)
        THEN [raised |-> "ZeroDivisionError"]
        ELSE [raised |-> "",
              dP |-> dP2,
              alpha |-> Arr([m \in 1..nbr |->
                  RDiv(RSum(Arr([j \in buses |-> RMul(ptdf[m][j], dP2[j])]), buses), dT)])]

BusesA == Range0(NBusA)

InjectionsA == {<<n, 1>> : n \in (0 - MaxInjA)..MaxInjA}

\* the ways of putting each bus in the sending area, the receiving area or
\* neither; index arrays are ascending
AreaInputs ==
    {[idx1 |-> SortedSeq({b \in BusesA : a[b] = 1}),
      idx2 |-> SortedSeq({b \in BusesA : a[b] = 2})] : a \in [BusesA -> 0..2]}

InitAlpha ==
    /\ pc = "call"
    /\ IdleTypes /\ IdleLinear /\ IdleLodf /\ IdleCompile
    /\ call \in {[fn |-> "compute_alpha", ptdf |-> <<p>>, P0 |-> P, idx1 |-> a.idx1,
                  idx2 |-> a.idx2, bus_types |-> ty, dT |-> ROne]
                 : p \in [BusesA -> {RZero, ROne}], P \in [BusesA -> InjectionsA],
                   a \in AreaInputs,
                   ty \in [BusesA -> {BusModePQ, BusModePV, BusModeSlack}]}
    /\ result = <<>>

ComputeAlpha ==
    /\ pc = "call" /\ call.fn = "compute_alpha"
    /\ result' = compute_alpha(call.ptdf, call.P0, call.idx1, call.idx2,
                               call.bus_types, call.dT)
    /\ pc' = "return"
    /\ UNCHANGED <<call, varsTypes, varsLinear, varsLodf, varsCompile>>

NextAlpha == ComputeAlpha

SpecAlpha == InitAlpha /\ [][NextAlpha]_vars

\* ---------------------------------------------------------------------------
\* compute_ntc (Engine/Simulations/NTC/net_transfer_capacity_driver.py)
\* ---------------------------------------------------------------------------
\* np.inf
Inf == <<1, 0>>

\* abs(x) of a float
RAbs(x) == IF x = Inf THEN Inf ELSE IF RLt(x, RZero) THEN RNeg(x) ELSE x

\* abs(x) < abs(y), np.inf included
AbsLess(x, y) ==
    IF RAbs(x) = Inf THEN FALSE
    ELSE IF RAbs(y) = Inf THEN TRUE
    ELSE RLt(RAbs(x), RAbs(y))

\* x <= y on finite floats
RLeq(x, y) == ~RGt(x, y)

\* mutant: the limit is taken against +rate whatever the sign of the sensitivity
TransferLimit_PositiveRate(s, f, r) ==
    IF s = RZero THEN Inf ELSE RDiv(RSub(r, f), s)

\* the ATC of a branch of sensitivity s, flow f and rate r
\* (np.inf / (r - f) / s / (-r - f) / s)
TransferLimit(s, f, r) ==
    IF s = RZero THEN Inf
    ELSE IF RGt(s, RZero) THEN RDiv(RSub(r, f), s)
    ELSE RDiv(RSub(RNeg(r), f), s)

\* mutant: the last qualifying contingency replaces the limit found so far
Contingency_KeepLast(a, m, c, lodf, alpha, flows, contingency_rates, threshold) ==
    IF m = c THEN a
    ELSE LET beta_mc == RAdd(alpha[m], RMul(lodf[m][c], alpha[c]))
             contingency_flow == RAdd(flows[m], RMul(lodf[m][c], flows[c]))
             a1 == [a EXCEPT !.beta[c] = beta_mc]
         IN  IF RGt(RAbs(beta_mc), threshold)
                    /\ RLeq(RAbs(contingency_flow), contingency_rates[m])
             THEN [a1 EXCEPT !.atc_final = TransferLimit(beta_mc, contingency_flow,
                                                          contingency_rates[m]),
                             !.flow = contingency_flow,
                             !.branch = c]
             ELSE a1

\* the body of "for c in range(nbr)" for branch m; a holds atc_final[m],
\* beta[m, :] and the limiting contingency found so far
Contingency(a, m, c, lodf, alpha, flows, contingency_rates, threshold) ==
    IF m = c THEN a
    ELSE LET beta_mc == RAdd(alpha[m], RMul(lodf[m][c], alpha[c]))
             contingency_flow == RAdd(flows[m], RMul(lodf[m][c], flows[c]))
             a1 == [a EXCEPT !.beta[c] = beta_mc]
         IN  IF RGt(RAbs(beta_mc), threshold)
                    /\ RLeq(RAbs(contingency_flow), contingency_rates[m])
             THEN LET atc_mc == TransferLimit(beta_mc, contingency_flow,
                                              contingency_rates[m])
                  IN  IF AbsLess(atc_mc, a1.atc_final)
                      THEN [a1 EXCEPT !.atc_final = atc_mc,
                                      !.flow = contingency_flow,
                                      !.branch = c]
                      ELSE a1
             ELSE a1

RECURSIVE Contingencies(_, _, _, _, _, _, _, _, _)
Contingencies(a, m, c, nbr, lodf, alpha, flows, contingency_rates, threshold) ==
    IF c >= nbr THEN a
    ELSE Contingencies(Contingency(a, m, c, lodf, alpha, flows, contingency_rates,
                                   threshold),
                       m, c + 1, nbr, lodf, alpha, flows, contingency_rates, threshold)

\* the body of "for m in range(nbr)": atc_n, atc_final, beta[m, :] and the
\* limiting contingency of branch m
BranchNtc(m, nbr, lodf, alpha, flows, rates, contingency_rates, threshold) ==
    LET zeros == Arr([c \in Range0(nbr) |-> RZero])
    IN  IF RGt(RAbs(alpha[m]), threshold) /\ RLt(RAbs(flows[m]), rates[m])
        THEN LET atc == TransferLimit(alpha[m], flows[m], rates[m])
                 a == Contingencies([atc_final |-> atc, beta |-> zeros,
                                     flow |-> flows[m], branch |-> m],
                                    m, 0, nbr, lodf, alpha, flows, contingency_rates,
                                    threshold)
             IN  [atc_n |-> atc, atc_final |-> a.atc_final, beta |-> a.beta,
                  flow |-> a.flow, branch |-> a.branch]
        ELSE [atc_n |-> RZero, atc_final |-> RZero, beta |-> zeros,
              flow |-> flows[m], branch |-> 0]

compute_ntc(ptdf, lodf, alpha, flows, rates, contingency_rates, threshold) ==
    LET nbr == Len(ptdf)
        b == Arr([m \in Range0(nbr) |->
                    BranchNtc(m, nbr, lodf, alpha, flows, rates, contingency_rates,
                              threshold)])
    IN  [alpha |-> alpha,
         beta |-> Arr([m \in Range0(nbr) |-> b[m].beta]),
         atc_n |-> Arr([m \in Range0(nbr) |-> b[m].atc_n]),
         atc_final |-> Arr([m \in Range0(nbr) |-> b[m].atc_final]),
         atc_limiting_contingency_branch |-> Arr([m \in Range0(nbr) |-> b[m].branch]),
         atc_limiting_contingency_flow |-> Arr([m \in Range0(nbr) |-> b[m].flow])]

BranchesN == Range0(NBrN)

\* the default threshold=0.02 and a coarser one
ThresholdValues == {RZero, <<1, 50>>, <<1, 2>>}

AlphaValues == {<<0 - 1, 1>>, RZero, <<1, 100>>, ROne}

FlowValues == {<<0 - 1, 1>>, RZero, <<1, 2>>, ROne}

RateValues == {<<r, 1>> : r \in 1..MaxRate}

\* elm.contingency_factor
ContingencyFactors == {ROne, <<3, 2>>}

\* LODF matrices as make_lodf leaves them: -1 on the diagonal
LodfInputsN ==
    {Arr([m \in BranchesN |-> Arr([c \in BranchesN |->
            IF m = c THEN RMinusOne ELSE l[<<m, c>>]])])
     : l \in [{p \in BranchesN \X BranchesN : p[1] # p[2]} -> {RMinusOne, <<1, 2>>, ROne}]}

\* data.contingency_rates[i] = elm.rate * elm.contingency_factor
ContingencyRates(rates, factor) == Arr([m \in DOMAIN rates |-> RMul(rates[m], factor[m])])

InitNtc ==
    /\ pc = "call"
    /\ IdleTypes /\ IdleLinear /\ IdleLodf /\ IdleCompile
    /\ call \in {[fn |-> "compute_ntc",
                  ptdf |-> [m \in 1..NBrN |-> <<>>],
                  lodf |-> l, alpha |-> a, flows |-> f, rates |-> r,
                  contingency_factor |-> cf,
                  contingency_rates |-> ContingencyRates(r, cf),
                  threshold |-> th]
                 : l \in LodfInputsN, a \in [BranchesN -> AlphaValues],
                   f \in [BranchesN -> FlowValues], r \in [BranchesN -> RateValues],
                   cf \in [BranchesN -> ContingencyFactors], th \in ThresholdValues}
    /\ result = <<>>

ComputeNtc ==
    /\ pc = "call" /\ call.fn = "compute_ntc"
    /\ result' = compute_ntc(call.ptdf, call.lodf, call.alpha, call.flows, call.rates,
                             call.contingency_rates, call.threshold)
    /\ pc' = "return"
    /\ UNCHANGED <<call, varsTypes, varsLinear, varsLodf, varsCompile>>

NextNtc == ComputeNtc

SpecNtc == InitNtc /\ [][NextNtc]_vars

\* ---------------------------------------------------------------------------
\* StaticGeneratorData (Engine/Core/DataStructures/static_generator_data.py)
\* active is (nstagen, ntime): active[k][t]; C_bus_static_generator is
\* (nbus, nstagen): C[b][k]
\* ---------------------------------------------------------------------------
\* topology.get_elements_of_the_island(C_element_bus, island, active): the
\* ascending indices of the elements that touch a bus of the island and whose
\* entry of the mask, as read, is set
get_elements_of_the_island(C_bus_element, nelm, island, read) ==
    SortedSeq({k \in Range0(nelm) :
                  /\ \E j \in DOMAIN island : C_bus_element[island[j]][k] # 0
                  /\ read[k]})

\* the masks a loop over nelm elements can read from the array handed to it:
\* an index past its end reads whatever lies there
MaskReads(mask, nelm) ==
    {read \in [Range0(nelm) -> BOOLEAN] :
        \A k \in Range0(nelm) : k \in DOMAIN mask => read[k] = mask[k]}

\* StaticGeneratorData.get_island(bus_idx, t_idx): self.active[t_idx] is row
\* t_idx of the (nstagen, ntime) array, IndexError when there is no such row
StaticGenerator_get_island(self, bus_idx, t_idx, read) ==
    IF self.nstagen # 0
    THEN IF t_idx \in Range0(self.nstagen)
         THEN [raised |-> "",
               active |-> self.active[t_idx],
               island |-> get_elements_of_the_island(self.C_bus_static_generator,
                                                     self.nstagen, bus_idx, read)]
         ELSE [raised |-> "IndexError"]
    ELSE [raised |-> "", active |-> <<>>, island |-> <<>>]

BusesS == Range0(NBusS)

\* StaticGeneratorData objects as get_static_generator_data fills them: every
\* device on one bus
StaticGeneratorInputs ==
    UNION {UNION {{[nstagen |-> n, ntime |-> nt, active |-> a,
                    C_bus_static_generator |->
                        Arr([b \in BusesS |-> Arr([k \in Range0(n) |->
                                IF bus[k] = b THEN 1 ELSE 0])])]
                   : a \in [Range0(n) -> [Range0(nt) -> BOOLEAN]],
                     bus \in [Range0(n) -> BusesS]}
                  : nt \in 1..MaxTimeS}
           : n \in 0..MaxStaGen}

InitStaticGenerator ==
    /\ pc = "call"
    /\ IdleTypes /\ IdleLinear /\ IdleLodf /\ IdleCompile
    /\ call \in {[fn |-> "StaticGeneratorData.get_island", self |-> s,
                  bus_idx |-> SortedSeq(B), t_idx |-> t]
                 : s \in StaticGeneratorInputs, B \in SUBSET BusesS, t \in Range0(MaxTimeS)}
    /\ call.t_idx < call.self.ntime
    /\ result = <<>>

GetIsland ==
    /\ pc = "call" /\ call.fn = "StaticGeneratorData.get_island"
    /\ \E read \in MaskReads(IF call.t_idx \in Range0(call.self.nstagen)
                             THEN call.self.active[call.t_idx] ELSE <<>>,
                             call.self.nstagen) :
          result' = StaticGenerator_get_island(call.self, call.bus_idx, call.t_idx, read)
    /\ pc' = "return"
    /\ UNCHANGED <<call, varsTypes, varsLinear, varsLodf, varsCompile>>

NextStaticGenerator == GetIsland

SpecStaticGenerator == InitStaticGenerator /\ [][NextStaticGenerator]_vars

\* ---------------------------------------------------------------------------
\* SnapshotOpfData.get_island (Engine/Core/snapshot_opf_data.py)
\*
\* A circuit object is [original_bus_idx, bus_data, data, original]: data maps
\* a device class to the array of its devices [name, buses], original maps a
\* class to its original_*_idx array.  Objects live in a heap of two cells,
\* "self" (the parent) and "nc" (the object get_island constructs), and a
\* return value is the name of a cell.
\* ---------------------------------------------------------------------------
\* the per-class data objects get_island asks for their island, in that order
IslandClasses ==
    <<"line", "dc_line", "transformer", "vsc", "hvdc", "branch", "upfc",
      "load", "static_generator", "generator", "battery", "shunt">>

\* the classes whose original_*_idx get_island assigns (lines 162-173)
OriginalIdxAssigned ==
    {"branch", "line", "transformer", "dc_line", "vsc", "hvdc", "generator",
     "battery", "load", "static_generator", "shunt"}

\* the classes whose data get_island replaces by a slice (lines 176-187)
DataSliced ==
    {"branch", "line", "transformer", "hvdc", "vsc", "dc_line", "load",
     "static_generator", "battery", "generator", "shunt"}

\* <class>_data.get_island(bus_idx): the ascending indices of the devices
\* that touch a bus of bus_idx
ClassIsland(devices, bus_idx) ==
    SortedSeq({k \in Range0(Len(devices)) : devices[k + 1].buses \cap SeqSet(bus_idx) # {}})

\* <class>_data.slice(elm_idx, bus_idx): fresh arrays (numpy index-array
\* selection copies), the buses renumbered within the island
ClassSlice(devices, elm_idx, bus_idx) ==
    [j \in 1..Len(elm_idx) |->
        [name |-> devices[elm_idx[j] + 1].name,
         buses |-> {LocalIndex(bus_idx, b) :
                       b \in devices[elm_idx[j] + 1].buses \cap SeqSet(bus_idx)}]]

\* the data object of n devices the SnapshotOpfData constructor creates
BlankData(n) == [j \in 1..n |-> [name |-> "", buses |-> {}]]

\* the original_*_idx of n devices the constructor leaves: 0..n-1
ConstructedIdx(n) == [j \in 1..n |-> j - 1]

\* lines 132-187: the object built when the island is not the whole circuit
SlicedIsland(self, bus_idx) ==
    LET idx == [c \in SeqSet(IslandClasses) |-> ClassIsland(self.data[c], bus_idx)]
    IN  [original_bus_idx |-> bus_idx,
         bus_data |-> [j \in 1..Len(bus_idx) |-> self.bus_data[bus_idx[j] + 1]],
         data |-> [c \in SeqSet(IslandClasses) |->
                      IF c \in DataSliced
                      THEN ClassSlice(self.data[c], idx[c], bus_idx)
                      ELSE BlankData(Len(idx[c]))],
         original |-> [c \in SeqSet(IslandClasses) |->
                          IF c \in OriginalIdxAssigned
                          THEN idx[c]
                          ELSE ConstructedIdx(Len(idx[c]))]]

\* SnapshotOpfData.get_island(bus_idx): the heap and the cell returned
Snapshot_get_island(self, bus_idx) ==
    IF Len(bus_idx) = Len(self.original_bus_idx) /\ bus_idx = self.original_bus_idx
    THEN [ref |-> "self", heap |-> [self |-> self, nc |-> <<>>]]
    ELSE [ref |-> "nc", heap |-> [self |-> self, nc |-> SlicedIsland(self, bus_idx)]]

BusesI == Range0(NBusI)

BusNames == SubSeq(<<"bus0", "bus1", "bus2", "bus3">>, 1, NBusI)

DeviceNames == <<"first", "second", "third">>

DeviceClassesI ==
    <<"line", "dc_line", "transformer", "vsc", "upfc", "hvdc",
      "load", "static_generator", "generator", "battery", "shunt">>

\* up to MaxDevicesI devices, class by class, each on one bus or between two
DeviceListsI ==
    {s \in UNION {[1..k -> [class : DOMAIN DeviceClassesI,
                            buses : {B \in SUBSET BusesI : Cardinality(B) \in {1, 2}}]]
                  : k \in 0..MaxDevicesI} :
        \A k \in 1..(Len(s) - 1) : s[k].class <= s[k + 1].class}

DevicesOfClass(s, classes) ==
    LET sel == SelectSeq([k \in 1..Len(s) |-> [class |-> s[k].class, buses |-> s[k].buses,
                                               name |-> DeviceNames[k]]],
                         LAMBDA d : DeviceClassesI[d.class] \in classes)
    IN  [k \in 1..Len(sel) |-> [name |-> sel[k].name, buses |-> sel[k].buses]]

\* the compiled parent circuit: branch_data holds the lines, DC lines,
\* transformers, VSC and UPFC, in that order
ParentCircuit(s) ==
    LET data == [c \in SeqSet(IslandClasses) |->
                    IF c = "branch"
                    THEN DevicesOfClass(s, {"line"}) \o DevicesOfClass(s, {"dc_line"})
                            \o DevicesOfClass(s, {"transformer"}) \o DevicesOfClass(s, {"vsc"})
                            \o DevicesOfClass(s, {"upfc"})
                    ELSE DevicesOfClass(s, {c})]
    IN  [original_bus_idx |-> [j \in 1..NBusI |-> j - 1],
         bus_data |-> BusNames,
         data |-> data,
         original |-> [c \in SeqSet(IslandClasses) |-> ConstructedIdx(Len(data[c]))]]

InitIsland ==
    /\ pc = "call"
    /\ IdleTypes /\ IdleLinear /\ IdleLodf /\ IdleCompile
    /\ call \in {[fn |-> "SnapshotOpfData.get_island", self |-> ParentCircuit(s),
                  bus_idx |-> SortedSeq(B)]
                 : s \in DeviceListsI, B \in (SUBSET BusesI) \ {{}}}
    /\ result = <<>>

SnapshotGetIsland ==
    /\ pc = "call" /\ call.fn = "SnapshotOpfData.get_island"
    /\ result' = Snapshot_get_island(call.self, call.bus_idx)
    /\ pc' = "return"
    /\ UNCHANGED <<call, varsTypes, varsLinear, varsLodf, varsCompile>>

\* the caller writes into an array of the object in a heap cell: a bus name
\* or a device name
WriteArray(heap, cell) ==
    {[heap EXCEPT ![cell].bus_data[j] = "changed"] : j \in DOMAIN heap[cell].bus_data}
    \cup UNION {{[heap EXCEPT ![cell].data[c][j].name = "changed"]
                    : j \in DOMAIN heap[cell].data[c]}
                : c \in SeqSet(IslandClasses)}

ModifyIsland ==
    /\ pc = "return" /\ call.fn = "SnapshotOpfData.get_island"
    /\ \E h \in WriteArray(result.heap, result.ref) : result' = [result EXCEPT !.heap = h]
    /\ pc' = "island_modified"
    /\ UNCHANGED <<call, varsTypes, varsLinear, varsLodf, varsCompile>>

ModifyParent ==
    /\ pc = "return" /\ call.fn = "SnapshotOpfData.get_island"
    /\ \E h \in WriteArray(result.heap, "self") : result' = [result EXCEPT !.heap = h]
    /\ pc' = "parent_modified"
    /\ UNCHANGED <<call, varsTypes, varsLinear, varsLodf, varsCompile>>

NextIsland == SnapshotGetIsland \/ ModifyIsland \/ ModifyParent

SpecIsland == InitIsland /\ [][NextIsland]_vars

\* ---------------------------------------------------------------------------
\* find_different_states (Engine/Core/common_functions.py)
\*
\* states_array is a sequence of rows (row t + 1 is time index t), each row a
\* sequence of booleans.  The returned dict is the record of its keys in
\* insertion order and, per key, the list of time indices.
\* ---------------------------------------------------------------------------

\* np.array_equal(states_array[t, :], states_array[t2, :])
RowsEqual_FirstDevice(states_array, t, t2) ==
    \/ Len(states_array[t + 1]) = 0
    \/ states_array[t + 1][1] = states_array[t2 + 1][1]

RowsEqual(states_array, t, t2) ==
    /\ Len(states_array[t + 1]) = Len(states_array[t2 + 1])
    /\ \A d \in 1..Len(states_array[t + 1]) :
          states_array[t + 1][d] = states_array[t2 + 1][d]

\* the while loop: the first key, from position i on, whose state equals the
\* state at t; -1 when the search ends without a match
RECURSIVE SearchState(_, _, _, _)
SearchState(states_array, keys, t, i) ==
    IF i > Len(keys)
    THEN -1
    ELSE IF RowsEqual(states_array, t, keys[i])
         THEN keys[i]
         ELSE SearchState(states_array, keys, t, i + 1)

\* one pass of the for loop over t
VisitTime(states_array, states, t) ==
    LET t2 == SearchState(states_array, states.keys, t, 1)
    IN  IF t2 # -1
        THEN [states EXCEPT !.lists[t2] = Append(@, t)]
        ELSE [keys  |-> Append(states.keys, t),
              lists |-> (t :> <<t>>) @@ states.lists]

RECURSIVE VisitTimes(_, _, _)
VisitTimes(states_array, states, t) ==
    IF t >= Len(states_array)
    THEN states
    ELSE VisitTimes(states_array, VisitTime(states_array, states, t), t + 1)

find_different_states(states_array, force_all) ==
    LET ntime == Len(states_array)
    IN  IF force_all
        THEN [keys  |-> [i \in 1..ntime |-> i - 1],
              lists |-> Arr([i \in Range0(ntime) |-> <<i>>])]
        ELSE VisitTimes(states_array, [keys |-> <<>>, lists |-> <<>>], 0)

\* boolean arrays of shape (ntime, ndevice)
StatesArrays ==
    UNION {[1..ntime -> [1..ndev -> BOOLEAN]]
           : ntime \in 0..MaxTimeF, ndev \in 0..MaxDeviceF}

InitStates ==
    /\ pc = "call"
    /\ IdleTypes /\ IdleLinear /\ IdleLodf /\ IdleCompile
    /\ call \in {[fn |-> "find_different_states", states_array |-> a, force_all |-> f]
                 : a \in StatesArrays, f \in BOOLEAN}
    /\ result = <<>>

FindDifferentStates ==
    /\ pc = "call" /\ call.fn = "find_different_states"
    /\ result' = find_different_states(call.states_array, call.force_all)
    /\ pc' = "return"
    /\ UNCHANGED <<call, varsTypes, varsLinear, varsLodf, varsCompile>>

NextStates == FindDifferentStates

SpecStates == InitStates /\ [][NextStates]_vars

\* ---------------------------------------------------------------------------
\* make_otdf_max (Engine/Simulations/LinearFactors/linear_analysis.py)
\*
\* ptdf[k][j] and lodf[k][l] are exact rationals.  Below ParallelThreshold
\* buses the loop over j is sequential.  From ParallelThreshold buses on it
\* is a numba prange: the range of j is cut into one contiguous chunk per
\* thread and the threads read and write otdf[k, l] without synchronisation,
\* so make_otdf_max is the SET of arrays a run can return.
\* ---------------------------------------------------------------------------

\* val = ptdf[k, j] + lodf[k, l] * ptdf[l, j]
OtdfValue(ptdf, lodf, k, l, j) == RAdd(ptdf[k][j], RMul(lodf[k][l], ptdf[l][j]))

\* if abs(val) > abs(otdf[k, l]): otdf[k, l] = val
KeepLarger(x, val) == IF AbsLess(x, val) THEN val ELSE x

\* cell [k, l] after the iterations j = start .. stop - 1 ran in order on x.
\* The run is evaluated as its first half followed by its second half, and
\* the first half's value is inspected before the second half starts, which
\* keeps the depth of the evaluation logarithmic in the number of buses.
RECURSIVE ScanBuses(_, _, _, _, _, _, _)
ScanBuses(ptdf, lodf, k, l, start, stop, x) ==
    IF start >= stop
    THEN x
    ELSE IF start + 1 = stop
         THEN KeepLarger(x, OtdfValue(ptdf, lodf, k, l, start))
         ELSE LET mid   == (start + stop) \div 2
                  first == ScanBuses(ptdf, lodf, k, l, start, mid, x)
              IN  IF IsNaN(first)
                  THEN ScanBuses(ptdf, lodf, k, l, mid, stop, NaN)
                  ELSE ScanBuses(ptdf, lodf, k, l, mid, stop, first)

\* the iterations of prange(nj) given to thread t
Chunk(t, nj) ==
    [start |-> (t * nj) \div NumThreads, stop |-> ((t + 1) * nj) \div NumThreads]

\* the orders in which the threads can run one after the other
ThreadOrders ==
    {o \in [1..NumThreads -> Range0(NumThreads)] :
        \A a, b \in 1..NumThreads : a # b => o[a] # o[b]}

RECURSIVE RunChunks(_, _, _, _, _, _, _, _)
RunChunks(ptdf, lodf, k, l, nj, order, i, x) ==
    IF i > Len(order)
    THEN x
    ELSE RunChunks(ptdf, lodf, k, l, nj, order, i + 1,
                   ScanBuses(ptdf, lodf, k, l, Chunk(order[i], nj).start,
                             Chunk(order[i], nj).stop, x))

\* lost update: a thread that ran first compares val at j with the cell, the
\* other threads run to their end, then the thread writes val and goes on
StaleWrites(ptdf, lodf, k, l, nj) ==
    UNION {{ScanBuses(ptdf, lodf, k, l, j + 1, Chunk(t, nj).stop,
                      OtdfValue(ptdf, lodf, k, l, j))
            : j \in {i \in Chunk(t, nj).start..(Chunk(t, nj).stop - 1) :
                       /\ OtdfValue(ptdf, lodf, k, l, i) # RZero
                       /\ AbsLess(ScanBuses(ptdf, lodf, k, l, Chunk(t, nj).start, i, RZero),
                                  OtdfValue(ptdf, lodf, k, l, i))}}
           : t \in Range0(NumThreads)}

\* the values cell [k, l] can hold when the prange loop is over
RaceOutcomes(ptdf, lodf, k, l, nj) ==
    {RunChunks(ptdf, lodf, k, l, nj, o, 1, RZero) : o \in ThreadOrders}
        \cup StaleWrites(ptdf, lodf, k, l, nj)

make_otdf_max(ptdf, lodf, nk, nj) ==
    LET nl == nk
    IN  IF nj < ParallelThreshold
        THEN {Arr([k \in Range0(nk) |-> Arr([l \in Range0(nl) |->
                    ScanBuses(ptdf, lodf, k, l, 0, nj, RZero)])])}
        ELSE {Arr([k \in Range0(nk) |-> Arr([l \in Range0(nl) |-> o[<<k, l>>]])])
              : o \in {c \in [Range0(nk) \X Range0(nl) ->
                                UNION {RaceOutcomes(ptdf, lodf, p[1], p[2], nj)
                                       : p \in Range0(nk) \X Range0(nl)}] :
                         \A p \in Range0(nk) \X Range0(nl) :
                            c[p] \in RaceOutcomes(ptdf, lodf, p[1], p[2], nj)}}

\* sensitivities of the inputs
FactorValues == {RMinusOne, RZero, ROne}

\* (n-branch, n-bus) of the PTDF matrices: the small grids, and one branch
\* with enough buses for the parallel loop
Shapes ==
    {<<nk, nj>> : nk \in 1..MaxBrO, nj \in 0..MaxBusO} \cup {<<1, ParallelThreshold>>}

\* the buses of a grid that carry a sensitivity: every bus of a small grid;
\* of a large one the first bus of every thread's chunk and the last bus
MarkedBuses(nj) ==
    IF nj < ParallelThreshold
    THEN Range0(nj)
    ELSE {Chunk(t, nj).start : t \in Range0(NumThreads)} \cup {nj - 1}

PtdfInputsO(nk, nj) ==
    {Arr([k \in Range0(nk) |-> Arr([j \in Range0(nj) |->
            IF j \in MarkedBuses(nj) THEN m[<<k, j>>] ELSE RZero])])
     : m \in [Range0(nk) \X MarkedBuses(nj) -> FactorValues]}

LodfInputsO(nk) ==
    {Arr([k \in Range0(nk) |-> Arr([l \in Range0(nk) |-> m[<<k, l>>]])])
     : m \in [Range0(nk) \X Range0(nk) -> FactorValues]}

InitOtdf ==
    /\ pc = "call"
    /\ IdleTypes /\ IdleLinear /\ IdleLodf /\ IdleCompile
    /\ call \in UNION {{[fn |-> "make_otdf_max", ptdf |-> p, lodf |-> l,
                         nk |-> s[1], nj |-> s[2]]
                        : p \in PtdfInputsO(s[1], s[2]), l \in LodfInputsO(s[1])}
                       : s \in Shapes}
    /\ result = <<>>

MakeOtdfMax ==
    /\ pc = "call" /\ call.fn = "make_otdf_max"
    /\ \E otdf \in make_otdf_max(call.ptdf, call.lodf, call.nk, call.nj) :
          result' = otdf
    /\ pc' = "return"
    /\ UNCHANGED <<call, varsTypes, varsLinear, varsLodf, varsCompile>>

NextOtdf == MakeOtdfMax

SpecOtdf == InitOtdf /\ [][NextOtdf]_vars

\* ---------------------------------------------------------------------------
\* make_ptdf on its own: the DC matrices of a grid of NBusP buses with unit
\* susceptances, one slack bus at any position
\* ---------------------------------------------------------------------------
PtdfCalls ==
    {[fn |-> "make_ptdf", Bbus |-> g.Bbus, Bf |-> g.Bf, pqpv |-> g.pqpv, vd |-> g.vd,
      distribute_slack |-> ds]
     : g \in {IslandOf(Circuit(NBusP, s, {slack}), Range0(NBusP))
              : s \in UNION {{q \in [1..m -> BusPairs(NBusP)] :
                                 \A k \in 1..(m - 1) : PairLeq(q[k], q[k + 1])}
                             : m \in 0..MaxBrP},
                slack \in Range0(NBusP)},
       ds \in BOOLEAN}

InitPtdf ==
    /\ pc = "call"
    /\ IdleTypes /\ IdleLinear /\ IdleLodf /\ IdleCompile
    /\ call \in PtdfCalls
    /\ result = <<>>

MakePtdf ==
    /\ pc = "call" /\ call.fn = "make_ptdf"
    /\ result' = make_ptdf(call.Bbus, call.Bf, call.pqpv, call.distribute_slack)
    /\ pc' = "return"
    /\ UNCHANGED <<call, varsTypes, varsLinear, varsLodf, varsCompile>>

SpecPtdf == InitPtdf /\ [][MakePtdf]_vars

\* ---------------------------------------------------------------------------
\* LinearAnalysis over its lifetime: run(), reads of the OTDF property, and
\* edits of the grid between two runs (run() compiles self.grid anew)
\* ---------------------------------------------------------------------------
InitAnalysis ==
    /\ pc = "la_constructed"
    /\ IdleTypes /\ IdleLodf /\ IdleCompile
    /\ numerical_circuit \in {Circuit(NBusP, s, {sl})
                              : s \in BranchLists(NBusP), sl \in Range0(NBusP)}
    /\ distributed_slack \in BOOLEAN
    /\ correct_values \in BOOLEAN
    /\ PTDF = <<>> /\ LODF = <<>> /\ logger = <<>> /\ OTDF = NoOtdf
    /\ call = [fn |-> "LinearAnalysis.OTDF", edits |-> 0]
    /\ result = <<>>

\* the OTDF property, read once run() has completed
ReadOtdf ==
    /\ pc \in {"la_done", "otdf_read"}
    /\ IF ~OTDF.cached
       THEN \E otdf \in make_otdf_max(PTDF, LODF, numerical_circuit.nbr,
                                      numerical_circuit.nbus) :
                OTDF' = [cached |-> TRUE, value |-> otdf]
       ELSE OTDF' = OTDF
    /\ result' = OTDF'.value
    /\ pc' = "otdf_read"
    /\ UNCHANGED <<call, varsTypes, varsLodf, varsCompile, numerical_circuit,
                   distributed_slack, correct_values, PTDF, LODF, logger>>

\* the user edits the grid: the next run() compiles another circuit
EditGrid ==
    /\ pc \in {"la_done", "otdf_read"}
    /\ call.fn = "LinearAnalysis.OTDF" /\ call.edits < MaxEdits
    /\ numerical_circuit' \in {Circuit(NBusP, s, numerical_circuit.slack)
                               : s \in BranchLists(NBusP)}
    /\ call' = [call EXCEPT !.edits = @ + 1]
    /\ pc' = "la_constructed"
    /\ UNCHANGED <<result, varsTypes, varsLodf, varsCompile, distributed_slack,
                   correct_values, PTDF, LODF, logger, OTDF>>

SpecAnalysis == InitAnalysis /\ [][Run \/ ReadOtdf \/ EditGrid]_vars

\* ---------------------------------------------------------------------------
\* UPFC.change_base (Engine/Devices/upfc.py); the device is the record of its
\* positive-sequence impedances, exact rationals
\* ---------------------------------------------------------------------------
change_base(self, Sbase_old, Sbase_new) ==
    LET b  == Rat(Sbase_new, Sbase_old)
        s1 == [self EXCEPT !.Rs = RMul(@, b)]
        s2 == [s1 EXCEPT !.Xs = RMul(@, b)]
        s3 == [s2 EXCEPT !.Rsh = RMul(@, b)]
    IN  [s3 EXCEPT !.Xs = RMul(@, b)]

InitUpfc ==
    /\ pc = "call"
    /\ IdleTypes /\ IdleLinear /\ IdleLodf /\ IdleCompile
    /\ call \in {[fn |-> "UPFC.change_base",
                  self |-> [Rs |-> z[1], Xs |-> z[2], Rsh |-> z[3], Xsh |-> z[4]],
                  Sbase_old |-> s[1], Sbase_new |-> s[2]]
                 : z \in [1..4 -> {RZero, <<1, 100000>>, <<1, 100>>, ROne}],
                   s \in {1, 2, 100} \X {1, 2, 100}}
    /\ result = <<>>

\* change_base(Sbase_old, Sbase_new) on the device
ChangeBase ==
    /\ pc = "call" /\ call.fn = "UPFC.change_base"
    /\ result' = change_base(call.self, call.Sbase_old, call.Sbase_new)
    /\ pc' = "changed"
    /\ UNCHANGED <<call, varsTypes, varsLinear, varsLodf, varsCompile>>

\* change_base(Sbase_new, Sbase_old) on the device changed before
ChangeBaseBack ==
    /\ pc = "changed" /\ call.fn = "UPFC.change_base"
    /\ result' = change_base(result, call.Sbase_new, call.Sbase_old)
    /\ pc' = "return"
    /\ UNCHANGED <<call, varsTypes, varsLinear, varsLodf, varsCompile>>

SpecUpfc == InitUpfc /\ [][ChangeBase \/ ChangeBaseBack]_vars

\* ---------------------------------------------------------------------------
\* make_lodf_nx (Engine/Simulations/LinearFactors/linear_analysis.py)
\*
\* The circuit is the record of what the function reads: the idtags of
\* get_branches() in order, the contingency groups (idtag and the c_idx
\* attribute the function writes) and the contingencies (idtag of their
\* group, idtag of their device).  idtags are unique, every contingency
\* names a registered group and a branch.  The parameter circuit is
\* written grid.
\* ---------------------------------------------------------------------------

\* np.linalg.inv(M) of a 1-based square matrix; a singular M raises
inv(M) ==
    IF Det(M) = RZero
    THEN [raised |-> "LinAlgError", value |-> <<>>]
    ELSE [raised |-> "",
          value  |-> spsolve(M, Arr([i \in 1..Len(M) |-> Arr([j \in 1..Len(M) |->
                                   IF i = j THEN ROne ELSE RZero])]), Len(M))]

\* cg.c_idx once the loop over circuit.contingencies is over
AppendedIdx(grid, cg) ==
    LET mine == SelectSeq(grid.contingencies, LAMBDA c : c.group = cg.idtag)
    IN  [k \in 1..Len(mine) |->
            (CHOOSE i \in 1..Len(grid.branches) :
                grid.branches[i] = mine[k].device_idtag) - 1]

\* mutant: the columns of LODF are returned as they are
GroupLodf_NoInverse(c_idx, lodf) ==
    [raised |-> "",
     value  |-> Arr([k \in DOMAIN lodf |-> Arr([i \in 1..Len(c_idx) |-> lodf[k][c_idx[i]]])])]

\* the body of the last loop for a group whose c_idx is sorted and unique
GroupLodf(c_idx, lodf) ==
    LET n  == Len(c_idx)
        L  == Arr([k \in DOMAIN lodf |-> Arr([i \in 1..n |-> lodf[k][c_idx[i]]])])
        M  == Arr([i \in 1..n |-> Arr([j \in 1..n |->
                  IF i = j THEN ROne ELSE RNeg(lodf[c_idx[i]][c_idx[j]])])])
        Mi == inv(M)
    IN  IF Mi.raised # ""
        THEN [raised |-> Mi.raised, value |-> <<>>]
        ELSE [raised |-> "",
              value  |-> Arr([k \in DOMAIN lodf |-> Arr([j \in 1..n |->
                             RSum(Arr([i \in 1..n |-> RMul(L[k][i], Mi.value[i][j])]),
                                  1..n)])])]

\* the last loop from group g on; st holds the groups and the list so far
RECURSIVE GroupLoop(_, _, _)
GroupLoop(st, g, lodf) ==
    IF g > Len(st.groups) THEN st
    ELSE LET c_idx == SortedSeq(SeqSet(st.groups[g].c_idx))
             nx    == GroupLodf(c_idx, lodf)
             st1   == [st EXCEPT !.groups[g].c_idx = c_idx]
         IN  IF nx.raised # ""
             THEN [st1 EXCEPT !.raised = nx.raised]
             ELSE GroupLoop([st1 EXCEPT !.lodf_nx_list =
                                 Append(@, [c_idx |-> c_idx, lodf_nx |-> nx.value])],
                            g + 1, lodf)

\* the groups as the call leaves them, the list returned and the exception
make_lodf_nx(grid, lodf) ==
    LET filled == [g \in 1..Len(grid.contingency_groups) |->
                      [grid.contingency_groups[g] EXCEPT
                          !.c_idx = AppendedIdx(grid, grid.contingency_groups[g])]]
    IN  GroupLoop([groups |-> filled, lodf_nx_list |-> <<>>, raised |-> ""], 1, lodf)

BranchTags == SubSeq(<<"b0", "b1", "b2", "b3">>, 1, NBrX)
GroupTags == SubSeq(<<"g0", "g1", "g2">>, 1, MaxGroups)

LodfNxCalls ==
    {[fn |-> "make_lodf_nx",
      circuit |-> [branches |-> BranchTags,
                   contingency_groups |-> [g \in 1..ng |-> [idtag |-> GroupTags[g],
                                                           c_idx |-> <<>>]],
                   contingencies |-> cs],
      lodf |-> Arr([m \in Range0(NBrX) |-> Arr([c \in Range0(NBrX) |->
                  IF m = c THEN RMinusOne ELSE l[<<m, c>>]])])]
     : ng \in 1..MaxGroups,
       cs \in UNION {[1..n -> [group : SeqSet(GroupTags), device_idtag : SeqSet(BranchTags)]]
                     : n \in 0..MaxContingencies},
       l \in [{p \in Range0(NBrX) \X Range0(NBrX) : p[1] # p[2]} -> {RMinusOne, <<1, 2>>}]}

InitLodfNx ==
    /\ pc = "call"
    /\ IdleTypes /\ IdleLinear /\ IdleLodf /\ IdleCompile
    /\ call \in LodfNxCalls
    /\ \A k \in DOMAIN call.circuit.contingencies :
          \E g \in DOMAIN call.circuit.contingency_groups :
              call.circuit.contingency_groups[g].idtag = call.circuit.contingencies[k].group
    /\ result = <<>>

\* make_lodf_nx(circuit, lodf)
MakeLodfNx ==
    /\ pc = "call" /\ call.fn = "make_lodf_nx"
    /\ result' = make_lodf_nx(call.circuit, call.lodf)
    /\ pc' = "return"
    /\ UNCHANGED <<call, varsTypes, varsLinear, varsLodf, varsCompile>>

\* make_lodf_nx(circuit, lodf) again, on the circuit the first call left
MakeLodfNxAgain ==
    /\ pc = "return" /\ call.fn = "make_lodf_nx"
    /\ result' = make_lodf_nx([call.circuit EXCEPT !.contingency_groups = result.groups],
                              call.lodf)
    /\ pc' = "return_again"
    /\ UNCHANGED <<call, varsTypes, varsLinear, varsLodf, varsCompile>>

SpecLodfNx == InitLodfNx /\ [][MakeLodfNx \/ MakeLodfNxAgain]_vars

\* ---------------------------------------------------------------------------
\* The threaded drivers and their cancel():
\*   StochasticPowerFlowDriver (Simulations/Stochastic/stochastic_power_flow_driver.py)
\*   TimeSeriesClustering      (Simulations/PowerFlow/time_series_clustring_driver.py)
\*   VoltageCollapse           (Simulations/ContinuationPowerFlow/voltage_collapse_driver.py)
\*
\* run() executes on the worker thread, cancel() on the caller's thread, at
\* any point between two statements of run().  call holds the driver class
\* and the size of the run (islands, and iterations per island: sample points
\* or time steps; VoltageCollapse makes one continuation per island).
\* result is the driver object: the flag __cancel__, the loop indices, the
\* rows stored in the results so far and the number of done_signal
\* emissions; cancelled and started_after_cancel record the history (whether
\* cancel() was called, and the iterations started after it).
\* ---------------------------------------------------------------------------
Drivers == {"StochasticPowerFlowDriver", "TimeSeriesClustering", "VoltageCollapse"}

InitDriver ==
    /\ pc = "run"
    /\ IdleTypes /\ IdleLinear /\ IdleLodf /\ IdleCompile
    /\ call \in {c \in [fn : {"run"}, driver : Drivers,
                          islands : 1..MaxIslands, points : 1..MaxPoints]
                 : c.driver = "VoltageCollapse" => c.points = 1}
    /\ result = [__cancel__ |-> FALSE, island_index |-> 0, t |-> 0,
                 results |-> {}, done_signal |-> 0,
                 cancelled |-> FALSE, started_after_cancel |-> {}]

\* run() up to the loops.  StochasticPowerFlowDriver.run clears the flag and
\* calls run_single_thread_mc; the other two compile the circuit and enter
\* the loop over the islands
RunEntry ==
    /\ pc = "run" /\ call.fn = "run"
    /\ IF call.driver = "StochasticPowerFlowDriver"
       THEN /\ result' = [result EXCEPT !.__cancel__ = FALSE]
            /\ pc' = "run_single_thread_mc"
       ELSE /\ pc' = "loop"
            /\ UNCHANGED result
    /\ UNCHANGED <<call, varsTypes, varsLinear, varsLodf, varsCompile>>

\* the first statement of run_single_thread_mc clears the flag again
RunSingleThreadMc ==
    /\ pc = "run_single_thread_mc" /\ call.fn = "run"
    /\ result' = [result EXCEPT !.__cancel__ = FALSE]
    /\ pc' = "loop"
    /\ UNCHANGED <<call, varsTypes, varsLinear, varsLodf, varsCompile>>

\* the loop body begins: iteration (island_index, t) is started
StartIteration ==
    /\ pc = "loop" /\ call.fn = "run"
    /\ result' = [result EXCEPT !.started_after_cancel =
                     IF result.cancelled
                     THEN @ \cup {<<result.island_index, result.t>>} ELSE @]
    /\ pc' = "iteration"
    /\ UNCHANGED <<call, varsTypes, varsLinear, varsLodf, varsCompile>>

\* the power flow of the iteration returns, its row is stored and the flag
\* is polled: StochasticPowerFlowDriver breaks out of the inner loop,
\* TimeSeriesClustering returns to run(), VoltageCollapse does not poll
FinishIteration ==
    /\ pc = "iteration" /\ call.fn = "run"
    /\ LET stored == [result EXCEPT !.results =
                         @ \cup {<<result.island_index, result.t>>}]
           polled == call.driver # "VoltageCollapse" /\ result.__cancel__
       IN  IF polled
           THEN /\ result' = stored
                /\ pc' = IF call.driver = "TimeSeriesClustering"
                         THEN "tail" ELSE "island_end"
           ELSE IF result.t + 1 < call.points
           THEN /\ result' = [stored EXCEPT !.t = @ + 1]
                /\ pc' = "loop"
           ELSE /\ result' = stored
                /\ pc' = "island_end"
    /\ UNCHANGED <<call, varsTypes, varsLinear, varsLodf, varsCompile>>

\* after the inner loop: StochasticPowerFlowDriver polls the flag once more
\* and breaks out of the loop over the islands; otherwise the island is
\* merged into the results and the next island begins
IslandEnd ==
    /\ pc = "island_end" /\ call.fn = "run"
    /\ IF call.driver = "StochasticPowerFlowDriver" /\ result.__cancel__
       THEN /\ pc' = "tail"
            /\ UNCHANGED result
       ELSE /\ result' = [result EXCEPT !.island_index = @ + 1, !.t = 0]
            /\ pc' = IF result.island_index + 1 < call.islands
                     THEN "loop" ELSE "tail"
    /\ UNCHANGED <<call, varsTypes, varsLinear, varsLodf, varsCompile>>

\* the statements after the loops: the results are kept and done_signal is
\* emitted
RunTail ==
    /\ pc = "tail" /\ call.fn = "run"
    /\ result' = [result EXCEPT !.done_signal = @ + 1]
    /\ pc' = "return"
    /\ UNCHANGED <<call, varsTypes, varsLinear, varsLodf, varsCompile>>

\* cancel(), called once while run() is executing: sets the flag and emits
\* done_signal
Cancel ==
    /\ pc \in {"run", "run_single_thread_mc", "loop", "iteration",
               "island_end", "tail"}
    /\ call.fn = "run"
    /\ ~result.cancelled
    /\ result' = [result EXCEPT !.__cancel__ = TRUE, !.done_signal = @ + 1,
                                !.cancelled = TRUE]
    /\ UNCHANGED <<pc, call, varsTypes, varsLinear, varsLodf, varsCompile>>

SpecDriver ==
    InitDriver /\ [][RunEntry \/ RunSingleThreadMc \/ StartIteration
                     \/ FinishIteration \/ IslandEnd \/ RunTail \/ Cancel]_vars

\* ---------------------------------------------------------------------------
\* Claims on compile_types
\* ---------------------------------------------------------------------------
PvIn == WhereType(types_in, BusModePV)
NoSlackIn == WhereType(types_in, BusModeSlack) = <<>>

\* C1: with no Slack bus and a PV bus of positive largest injection,
\* compile_types promotes exactly one bus, a member of the PV set that carries
\* the largest PV injection; it leaves pv and is the single element of ref,
\* whatever the injections of the PQ buses are.
C1_PromotesLargestPvBus ==
    (pc = "types_done" /\ NoSlackIn /\ Len(PvIn) > 0 /\ MaxOver(Sbus, PvIn) > 0)
        => /\ Len(ref) = 1
           /\ ref[1] \in SeqSet(PvIn)
           /\ Sbus[ref[1]] = MaxOver(Sbus, PvIn)
           /\ ref[1] \notin SeqSet(pv)
           /\ SeqSet(pv) = SeqSet(PvIn) \ {ref[1]}

\* C2: with no Slack bus and PV buses whose injections are all <= 0,
\* compile_types promotes the PV bus of smallest index: ref = [that bus], the
\* bus is no longer in pv and its types entry becomes Slack (3).
C2_FallbackFirstPvBus ==
    (pc = "types_done" /\ NoSlackIn /\ Len(PvIn) > 0 /\ MaxOver(Sbus, PvIn) <= 0)
        => /\ ref = <<PvIn[1]>>
           /\ \A b \in SeqSet(PvIn) : PvIn[1] <= b
           /\ PvIn[1] \notin SeqSet(pv)
           /\ SeqSet(pv) = SeqSet(PvIn) \ {PvIn[1]}
           /\ types[PvIn[1]] = 3

\* the fallback happened with several PV buses to choose from
C2_Witness ==
    /\ pc = "types_done" /\ NoSlackIn /\ Len(PvIn) >= 2
    /\ MaxOver(Sbus, PvIn) <= 0
    /\ ref = <<PvIn[1]>>

\* ---------------------------------------------------------------------------
\* Claims on make_lodf
\* ---------------------------------------------------------------------------
ArgsH == MakeH(lodf_args.Cf, lodf_args.Ct, lodf_args.PTDF)
ArgsDiv(c) == RSub(ROne, ArgsH[c][c])
\* |1 - H[c,c]| <= numerical_zero
NearZeroDenominator(c) == ~IsNaN(ArgsDiv(c)) /\ ~ExceedsNumericalZero(ArgsDiv(c))
PtdfIsFinite == \A i \in DOMAIN lodf_args.PTDF : \A j \in DOMAIN lodf_args.PTDF[i] :
                    ~IsNaN(lodf_args.PTDF[i][j])

\* C3 as stated: for every branch c with |1 - H[c,c]| <= numerical_zero every
\* entry of column c of the returned LODF is 0 (and a finite PTDF yields no
\* NaN entry).
C3_WholeColumnZero ==
    pc = "lodf_done" =>
        \A c \in DOMAIN lodf_result :
            NearZeroDenominator(c) =>
                /\ \A i \in DOMAIN lodf_result : lodf_result[i][c] = RZero
                /\ PtdfIsFinite =>
                      \A i \in DOMAIN lodf_result : \A j \in DOMAIN lodf_result :
                          ~IsNaN(lodf_result[i][j])

\* C3 amended: for every branch c with |1 - H[c,c]| <= numerical_zero every
\* off-diagonal entry of column c of the returned LODF is 0 and the diagonal
\* entry LODF[c,c] is -1, so column c holds no inf or NaN.
C3_ColumnZeroOffDiagonal ==
    pc = "lodf_done" =>
        \A c \in DOMAIN lodf_result :
            NearZeroDenominator(c) =>
                /\ \A i \in DOMAIN lodf_result \ {c} : lodf_result[i][c] = RZero
                /\ lodf_result[c][c] = RMinusOne

\* a column whose division was skipped although H holds a non-zero entry in it
C3_Witness ==
    /\ pc = "lodf_done"
    /\ \E c \in DOMAIN lodf_result :
          /\ NearZeroDenominator(c)
          /\ \E i \in DOMAIN lodf_result \ {c} :
                ArgsH[i][c] # RZero /\ lodf_result[i][c] = RZero

\* ---------------------------------------------------------------------------
\* Claims on LinearAnalysis.run
\* ---------------------------------------------------------------------------
IslandList == split_into_islands(numerical_circuit)
IslandIsValid(island) == Len(island.vd) = 1 /\ Len(island.pqpv) > 0
\* the island (its position in IslandList) a branch of the circuit belongs to
IslandOfBranch(i) ==
    CHOOSE k \in 1..Len(IslandList) : i \in SeqSet(IslandList[k].original_branch_idx)
IslandOfBus(b) ==
    CHOOSE k \in 1..Len(IslandList) : b \in SeqSet(IslandList[k].original_bus_idx)
AllBranches == Range0(numerical_circuit.nbr)
AllBuses == Range0(numerical_circuit.nbus)

\* C4: after run, LODF[i,i] = -1 for every branch i of a valid island (one
\* slack bus, non-empty pqpv), with correct_values enabled and disabled.
C4_LodfDiagonal ==
    pc = "la_done" =>
        \A i \in AllBranches :
            IslandIsValid(IslandList[IslandOfBranch(i)]) => LODF[i][i] = RMinusOne

\* a run with correct_values enabled over a valid island with two branches
C4_Witness ==
    /\ pc = "la_done" /\ correct_values
    /\ \E k \in 1..Len(IslandList) :
          /\ IslandIsValid(IslandList[k]) /\ IslandList[k].nbr >= 2
          /\ \A i \in SeqSet(IslandList[k].original_branch_idx) : LODF[i][i] = RMinusOne

LogOf(n_island) == SelectSeq(logger, LAMBDA e : e.device = n_island)

\* C5: an island without slack bus adds one warning, one with several slack
\* buses one error, one with a single slack bus and empty pqpv one error; run
\* raises nothing and the PTDF and LODF entries of the island's branches stay 0.
C5_InvalidIslandPolicy ==
    /\ (pc # "la_constructed" /\ Len(IslandList) > 0) => pc = "la_done"
    /\ pc = "la_done" =>
          \A k \in 1..Len(IslandList) :
              LET island == IslandList[k]
              IN  ~IslandIsValid(island) =>
                    /\ Len(island.vd) = 0 =>
                          LogOf(k - 1) = <<LogEntry("warning", "No slack bus", k - 1)>>
                    /\ Len(island.vd) > 1 =>
                          LogOf(k - 1) = <<LogEntry("error", "More than one slack bus", k - 1)>>
                    /\ (Len(island.vd) = 1 /\ Len(island.pqpv) = 0) =>
                          LogOf(k - 1) = <<LogEntry("error", "No PQ or PV nodes", k - 1)>>
                    /\ \A i \in SeqSet(island.original_branch_idx) :
                          /\ \A b \in AllBuses : PTDF[i][b] = RZero
                          /\ \A j \in AllBranches : LODF[i][j] = RZero /\ LODF[j][i] = RZero

\* a run over the three kinds of invalid island, one of them with a branch
C5_Witness ==
    /\ pc = "la_done"
    /\ \E k1, k2, k3 \in 1..Len(IslandList) :
          /\ Len(IslandList[k1].vd) = 0
          /\ Len(IslandList[k2].vd) > 1 /\ IslandList[k2].nbr > 0
          /\ Len(IslandList[k3].vd) = 1 /\ Len(IslandList[k3].pqpv) = 0
    /\ Len(logger) = Len(IslandList)

\* C6: whatever the position of the invalid islands, every valid island is
\* processed and its block of PTDF and LODF is the make_ptdf / make_lodf result
\* of that island alone; entries pairing a branch of one island with a bus or
\* branch of another island are 0.
C6_IslandIsolation ==
    pc = "la_done" =>
        /\ \A k \in 1..Len(IslandList) :
              LET island == IslandList[k]
                  ptdf_alone == make_ptdf(island.Bbus, island.Bf, island.pqpv, distributed_slack)
                  lodf_alone == make_lodf(island.Cf, island.Ct, ptdf_alone, correct_values)
              IN  IslandIsValid(island) =>
                    \A i \in Range0(island.nbr) :
                        /\ \A b \in Range0(island.nbus) :
                              PTDF[island.original_branch_idx[i + 1]][island.original_bus_idx[b + 1]]
                                  = ptdf_alone[i][b]
                        /\ \A j \in Range0(island.nbr) :
                              LODF[island.original_branch_idx[i + 1]][island.original_branch_idx[j + 1]]
                                  = lodf_alone[i][j]
        /\ \A i \in AllBranches :
              /\ \A b \in AllBuses : IslandOfBus(b) # IslandOfBranch(i) => PTDF[i][b] = RZero
              /\ \A j \in AllBranches :
                    IslandOfBranch(j) # IslandOfBranch(i) => LODF[i][j] = RZero

\* a valid island with a non-zero PTDF block, listed after an invalid island
\* that holds a branch
C6_Witness ==
    /\ pc = "la_done"
    /\ \E k0, k \in 1..Len(IslandList) :
          /\ k0 < k
          /\ ~IslandIsValid(IslandList[k0]) /\ IslandList[k0].nbr > 0
          /\ IslandIsValid(IslandList[k])
          /\ \E i \in SeqSet(IslandList[k].original_branch_idx) :
                \E b \in SeqSet(IslandList[k].original_bus_idx) : PTDF[i][b] # RZero

\* ---------------------------------------------------------------------------
\* Claims on the compilers (SpecCompile)
\* ---------------------------------------------------------------------------
VsetsOn(devices, b) ==
    LET sel == SelectSeq(devices, LAMBDA d : d.bus = b)
    IN  [k \in 1..Len(sel) |-> sel[k].Vset]

\* the set points of the devices on bus b, in processing order
InjectionSetPoints(b) ==
    VsetsOn(circuit.generators, b) \o VsetsOn(circuit.batteries, b)
        \o VsetsOn(circuit.shunts, b)

ErrorsOn(b) == SelectSeq(logger, LAMBDA e : e.device = b)

ExpectedErrors(b, sp) ==
    LET later == SubSeq(sp, 2, Len(sp))
        diff == SelectSeq(later, LAMBDA v : v # sp[1])
    IN  [k \in 1..Len(diff) |-> LogSetPoints(b, diff[k], sp[1])]

\* C7: once generators, batteries and shunts are compiled (no stored guess),
\* the Vbus entry of every bus that carries such devices equals the set point
\* of the first of them, and the logger holds, for that bus, exactly one
\* 'Different set points' error per later device whose set point differs from
\* it, recording that device's value and the value kept.
C7_FirstSetPointWins ==
    pc = "shunt_data" =>
        \A b \in BusesC :
            LET sp == InjectionSetPoints(b)
            IN  Len(sp) > 0 =>
                    /\ Vbus[b] = sp[1]
                    /\ ErrorsOn(b) = ExpectedErrors(b, sp)

\* the set points get_branch_data is asked to put on bus b by transformers
\* and VSC converters in a voltage-controlling mode
BranchSetPointsOn(b) ==
    {circuit.transformers2w[k].vset : k \in
        {j \in DOMAIN circuit.transformers2w :
            /\ circuit.transformers2w[j].control_mode \in {"Vt", "PtVt"}
            /\ circuit.transformers2w[j].bus_to = b}}
    \cup {circuit.vsc_devices[k].Vac_set : k \in
        {j \in DOMAIN circuit.vsc_devices :
            /\ circuit.vsc_devices[j].control_mode
                    \in {"type_I_1", "type_I_3", "type_II_5", "type_III_7"}
            /\ circuit.vsc_devices[j].bus_to = b}}
    \cup {circuit.vsc_devices[k].Vdc_set : k \in
        {j \in DOMAIN circuit.vsc_devices :
            /\ circuit.vsc_devices[j].control_mode
                    \in {"type_II_4", "type_II_5", "type_IV_I"}
            /\ circuit.vsc_devices[j].bus_from = b}}

\* C8: when get_branch_data compiles the transformers and VSC converters, a
\* bus whose Vbus entry is no longer the default keeps it, and if one of these
\* devices brings a different set point for that bus a 'Different set points'
\* error is added to the logger.
C8_BranchSetPointsKeepEarlierValue ==
    [][pc = "shunt_data" =>
        \A b \in BusesC :
            Vbus[b] # VoltageOne =>
                /\ Vbus'[b] = Vbus[b]
                /\ (\E v \in BranchSetPointsOn(b) : v # Vbus[b]) =>
                        \E k \in DOMAIN logger' :
                            /\ k > Len(logger)
                            /\ logger'[k].msg = "Different set points"
                            /\ logger'[k].device = b]_vars

ActiveHvdcTerminals ==
    {b \in BusesC : \E k \in DOMAIN circuit.hvdc_lines :
        /\ circuit.hvdc_lines[k].active
        /\ b \in {circuit.hvdc_lines[k].bus_from, circuit.hvdc_lines[k].bus_to}}

\* C9: after get_hvdc_data both terminals of every active HVDC link have
\* tentative type PV, and every bus that is a terminal of no active link has
\* the type it had before the call.
C9_HvdcTerminalsArePV ==
    pc = "hvdc_data" =>
        \A b \in BusesC :
            IF b \in ActiveHvdcTerminals
            THEN bus_types[b] = BusModePV
            ELSE bus_types[b] = bus_types_in[b]

C9_Witness ==
    /\ pc = "hvdc_data"
    /\ \E b \in ActiveHvdcTerminals : bus_types_in[b] # BusModePV
    /\ \E b \in BusesC \ ActiveHvdcTerminals : bus_types_in[b] = BusModeSlack

RowsOf(devices, offset) ==
    \A k \in DOMAIN devices :
        LET i == offset + (k - 1)
        IN  /\ i \in Range0(branch_data.nbr)
            /\ branch_data.F[i] = devices[k].bus_from
            /\ branch_data.T[i] = devices[k].bus_to
            /\ \A b \in BusesC :
                /\ branch_data.C_branch_bus_f[i][b] = (IF b = branch_data.F[i] THEN 1 ELSE 0)
                /\ branch_data.C_branch_bus_t[i][b] = (IF b = branch_data.T[i] THEN 1 ELSE 0)

\* C10: in the BranchData returned by get_branch_data the lines, DC lines,
\* transformers, VSC and UPFC occupy consecutive disjoint index ranges in that
\* order, and every row i has F[i], T[i] equal to the device's from and to bus
\* indices, C_branch_bus_f[i, F[i]] = 1, C_branch_bus_t[i, T[i]] = 1 and no
\* other non-zero entry.
C10_IncidenceConsistency ==
    pc \in {"branch_data", "hvdc_data"} =>
        LET nline == Len(circuit.lines)
            ndcline == Len(circuit.dc_lines)
            ntr == Len(circuit.transformers2w)
            nvsc == Len(circuit.vsc_devices)
            nupfc == Len(circuit.upfc_devices)
        IN  /\ branch_data.nbr = nline + ndcline + ntr + nvsc + nupfc
            /\ DOMAIN branch_data.F = Range0(branch_data.nbr)
            /\ RowsOf(circuit.lines, 0)
            /\ RowsOf(circuit.dc_lines, nline)
            /\ RowsOf(circuit.transformers2w, nline + ndcline)
            /\ RowsOf(circuit.vsc_devices, nline + ndcline + ntr)
            /\ RowsOf(circuit.upfc_devices, nline + ndcline + ntr + nvsc)

C10_Witness ==
    /\ pc = "branch_data"
    /\ Len(circuit.dc_lines) = 1 /\ Len(circuit.transformers2w) = 1
    /\ circuit.dc_lines[1].bus_from # circuit.transformers2w[1].bus_from
    /\ branch_data.F[1] = circuit.transformers2w[1].bus_from

\* C11: get_branch_data, called on a registry whose devices all reference
\* registered buses, returns for every combination of device parameters, the
\* constructor defaults included: the compilation never ends in an exception.
C11_CompilationNeverRaises == pc # "compile_raised"

\* ---------------------------------------------------------------------------
\* Claims on compute_alpha (SpecAlpha)
\* ---------------------------------------------------------------------------
\* C12: when compute_alpha returns, a bus of idx1 with zero or negative
\* injection and a bus of idx2 with zero or positive injection have dP = 0;
\* a bus has dP # 0 only if it is PV or slack and is in idx1 with positive
\* injection or in idx2 with negative injection.
C12_OnlySignedDispatchablePerturbed ==
    (pc = "return" /\ call.fn = "compute_alpha" /\ result.raised = "") =>
        \A i \in DOMAIN call.P0 :
            /\ (i \in SeqSet(call.idx1) /\ ~RGt(call.P0[i], RZero)) => result.dP[i] = RZero
            /\ (i \in SeqSet(call.idx2) /\ ~RLt(call.P0[i], RZero)) => result.dP[i] = RZero
            /\ result.dP[i] # RZero =>
                  /\ IsPvOrSlack(call.bus_types, i)
                  /\ \/ (i \in SeqSet(call.idx1) /\ RGt(call.P0[i], RZero))
                     \/ (i \in SeqSet(call.idx2) /\ RLt(call.P0[i], RZero))

\* ---------------------------------------------------------------------------
\* Claims on compute_ntc (SpecNtc)
\* ---------------------------------------------------------------------------
NtcReturned == pc = "return" /\ call.fn = "compute_ntc"

\* C13: with the default threshold 0.02, every branch m with alpha[m] = 0 is
\* reported with atc_n[m] = +inf and atc_final[m] = +inf.
C13_ZeroAlphaIsUnlimited ==
    (NtcReturned /\ call.threshold = <<1, 50>>) =>
        \A m \in BranchesN :
            call.alpha[m] = RZero =>
                result.atc_n[m] = Inf /\ result.atc_final[m] = Inf

\* the relevance test of branch m
Relevant(m) ==
    /\ RGt(RAbs(call.alpha[m]), call.threshold)
    /\ RLt(RAbs(call.flows[m]), call.rates[m])

BetaOf(m, c) == RAdd(call.alpha[m], RMul(call.lodf[m][c], call.alpha[c]))

ContingencyFlowOf(m, c) == RAdd(call.flows[m], RMul(call.lodf[m][c], call.flows[c]))

\* the contingencies of branch m that qualify
Qualifying(m) ==
    {c \in BranchesN \ {m} :
        /\ RGt(RAbs(BetaOf(m, c)), call.threshold)
        /\ RLeq(RAbs(ContingencyFlowOf(m, c)), call.contingency_rates[m])}

\* the limit of branch m in N (c = m) or under contingency c
LimitOf(m, c) ==
    IF c = m THEN TransferLimit(call.alpha[m], call.flows[m], call.rates[m])
    ELSE TransferLimit(BetaOf(m, c), ContingencyFlowOf(m, c), call.contingency_rates[m])

RaisedRate(m, r) ==
    LET rates == [call.rates EXCEPT ![m] = r]
    IN  compute_ntc(call.ptdf, call.lodf, call.alpha, call.flows, rates,
                    ContingencyRates(rates, call.contingency_factor), call.threshold)

\* C15: raising the rate of a branch m (its contingency rate following as
\* rate * contingency_factor), everything else fixed, decreases neither
\* atc_n[m] nor atc_final[m].
C15_RateMonotone ==
    NtcReturned =>
        \A m \in BranchesN : \A r \in RateValues :
            RGt(r, call.rates[m]) =>
                /\ RLeq(result.atc_n[m], RaisedRate(m, r).atc_n[m])
                /\ RLeq(result.atc_final[m], RaisedRate(m, r).atc_final[m])

\* ---------------------------------------------------------------------------
\* Claims on StaticGeneratorData (SpecStaticGenerator)
\* ---------------------------------------------------------------------------
\* C16: StaticGeneratorData.get_island(bus_idx, t_idx) with t_idx < ntime
\* returns, using as mask the active flag of each of the nstagen devices at
\* time t_idx, exactly the devices on a bus of bus_idx that are active at
\* time t_idx.
C16_MaskIsActiveAtTime ==
    (pc = "return" /\ call.fn = "StaticGeneratorData.get_island") =>
        /\ result.raised = ""
        /\ call.self.nstagen # 0 =>
              result.active = [k \in Range0(call.self.nstagen) |->
                                  call.self.active[k][call.t_idx]]
        /\ SeqSet(result.island) =
              {k \in Range0(call.self.nstagen) :
                  /\ \E j \in DOMAIN call.bus_idx :
                        call.self.C_bus_static_generator[call.bus_idx[j]][k] # 0
                  /\ call.self.active[k][call.t_idx]}

\* ---------------------------------------------------------------------------
\* Claims on SnapshotOpfData.get_island (SpecIsland)
\* ---------------------------------------------------------------------------
\* C17: the island get_island returns shares no array with its parent: after
\* a write into an array of the island the parent is as it was when
\* get_island was called, and after a write into an array of the parent the
\* island is as it was returned; also when bus_idx is the whole bus range.
C17_IslandOwnsItsArrays ==
    call.fn = "SnapshotOpfData.get_island" =>
        /\ pc = "island_modified" => result.heap.self = call.self
        /\ pc = "parent_modified" =>
              result.heap[result.ref] =
                  Snapshot_get_island(call.self, call.bus_idx).heap[result.ref]

\* C18: for a bus_idx that is a proper subset of the buses, the island holds,
\* for the buses and for every device class, exactly the devices of that
\* class's get_island(bus_idx), in order, and an original_*_idx array equal to
\* those indices.
C18_EveryClassSliced ==
    (pc = "return" /\ call.fn = "SnapshotOpfData.get_island"
            /\ Len(call.bus_idx) < Len(call.self.original_bus_idx)) =>
        LET nc == result.heap[result.ref]
        IN  /\ result.ref = "nc"
            /\ nc.original_bus_idx = call.bus_idx
            /\ nc.bus_data = [j \in 1..Len(call.bus_idx) |->
                                 call.self.bus_data[call.bus_idx[j] + 1]]
            /\ \A c \in SeqSet(IslandClasses) :
                  LET idx == ClassIsland(call.self.data[c], call.bus_idx)
                  IN  /\ nc.data[c] = ClassSlice(call.self.data[c], idx, call.bus_idx)
                      /\ nc.original[c] = idx

\* ---------------------------------------------------------------------------
\* Claims on find_different_states
\* ---------------------------------------------------------------------------

\* the lists of the returned dict that hold time index t
ListsHolding(t) ==
    {k \in DOMAIN result.lists : t \in SeqSet(result.lists[k])}

\* C19: with force_all false the returned lists partition the time indices
\* 0..ntime-1 (every index in exactly one list, once), two time indices share
\* a list exactly when their rows of states_array are identical, every list
\* is in ascending order and the key of a list is its smallest time index.
C19_StatesPartitionTime ==
    (pc = "return" /\ call.fn = "find_different_states" /\ ~call.force_all) =>
        LET a     == call.states_array
            times == Range0(Len(a))
        IN  /\ DOMAIN result.lists = SeqSet(result.keys)
            /\ \A k \in DOMAIN result.lists :
                  /\ SeqSet(result.lists[k]) \subseteq times
                  /\ \A i, j \in 1..Len(result.lists[k]) :
                        i < j => result.lists[k][i] < result.lists[k][j]
                  /\ Len(result.lists[k]) > 0
                  /\ result.lists[k][1] = k
            /\ \A t \in times : Cardinality(ListsHolding(t)) = 1
            /\ \A t1, t2 \in times :
                  (ListsHolding(t1) = ListsHolding(t2)) <=> (a[t1 + 1] = a[t2 + 1])

\* a state returns after another one came in between: rows 0 and 2 are
\* identical, row 1 differs
C19_Witness ==
    /\ pc = "return" /\ call.fn = "find_different_states" /\ ~call.force_all
    /\ Len(call.states_array) >= 3
    /\ Len(call.states_array[1]) >= 2
    /\ call.states_array[1] = call.states_array[3]
    /\ call.states_array[1] # call.states_array[2]
    /\ call.states_array[1][1] = call.states_array[2][1]
    /\ result.lists[0] = <<0, 2>> \o SubSeq(result.lists[0], 3, Len(result.lists[0]))

\* ---------------------------------------------------------------------------
\* Claims on make_otdf_max
\* ---------------------------------------------------------------------------

\* the buses whose value for cell [k, l] has the largest absolute value
LargestBuses(k, l) ==
    {j \in Range0(call.nj) :
        \A i \in Range0(call.nj) :
            ~AbsLess(OtdfValue(call.ptdf, call.lodf, k, l, j),
                     OtdfValue(call.ptdf, call.lodf, k, l, i))}

FirstLargest(k, l) ==
    IF call.nj = 0
    THEN RZero
    ELSE OtdfValue(call.ptdf, call.lodf, k, l,
                   CHOOSE j \in LargestBuses(k, l) : \A i \in LargestBuses(k, l) : j <= i)

\* C20: for every matrix size, entry [k, l] of the result of make_otdf_max
\* is the signed value PTDF[k,j] + LODF[k,l]*PTDF[l,j] of largest absolute
\* value over the buses j, the one of the smallest such j on a tie, and 0
\* when all values are 0.
C20_OtdfMaxFirstLargest ==
    (pc = "return" /\ call.fn = "make_otdf_max") =>
        \A k, l \in Range0(call.nk) : result[k][l] = FirstLargest(k, l)

\* the same, for the grids below ParallelThreshold buses only
C20_Sequential ==
    (pc = "return" /\ call.fn = "make_otdf_max" /\ call.nj < ParallelThreshold) =>
        \A k, l \in Range0(call.nk) : result[k][l] = FirstLargest(k, l)

\* C21: make_otdf_max goes parallel on the branch count, iterates the
\* parallel loop over the outer branch index and lets concurrent iterations
\* write disjoint rows only, so that every interleaving returns the matrix
\* of the sequential triple loop.
C21_ParallelMatchesSequential ==
    (pc = "return" /\ call.fn = "make_otdf_max") =>
        /\ (call.nk < ParallelThreshold) =>
              Cardinality(make_otdf_max(call.ptdf, call.lodf, call.nk, call.nj)) = 1
        /\ \A k, l \in Range0(call.nk) :
              result[k][l] = ScanBuses(call.ptdf, call.lodf, k, l, 0, call.nj, RZero)

\* ---------------------------------------------------------------------------
\* Claims on make_ptdf
\* ---------------------------------------------------------------------------

\* Bbus[pqpv, :][:, pqpv], as a 1-based square matrix
ReducedBbus ==
    Arr([r \in 1..Len(call.pqpv) |-> Arr([c \in 1..Len(call.pqpv) |->
        call.Bbus[call.pqpv[r]][call.pqpv[c]]])])

\* dTheta with the slack bus excluded: the reduced system solved for the
\* rows pqpv, zero on the row of the slack bus
SlackExcludedDTheta ==
    LET n   == Cardinality(DOMAIN call.Bbus)
        dP  == MakeDP(n, call.distribute_slack)
        rhs == Arr([r \in 1..Len(call.pqpv) |-> Arr([c \in 1..n |-> dP[call.pqpv[r]][c - 1]])])
        sol == spsolve(ReducedBbus, rhs, n)
    IN  Arr([b \in Range0(n) |-> Arr([j \in Range0(n) |->
            IF b \in SeqSet(call.pqpv)
            THEN sol[LocalIndex(call.pqpv, b) + 1][j + 1]
            ELSE RZero])])

\* the PTDF of the system with the slack bus excluded
SlackExcludedPtdf ==
    Arr([k \in DOMAIN call.Bf |-> Arr([j \in DOMAIN call.Bbus |->
        SparseDot(call.Bf[k], Arr([b \in DOMAIN call.Bbus |-> SlackExcludedDTheta[b][j]]))])])

PtdfReturned == pc = "return" /\ call.fn = "make_ptdf" /\ Det(ReducedBbus) # RZero

\* C24 as stated: on a grid whose reduced matrix is regular, make_ptdf
\* solves the system of the rows and columns pqpv of Bbus, writes the
\* solution to the rows pqpv of dTheta and leaves the row of the slack bus
\* at 0 for every injection column, whichever index the slack bus has.
C24_SlackBusExcluded ==
    PtdfReturned =>
        LET dTheta == make_ptdf_dTheta(call.Bbus, call.pqpv, call.distribute_slack)
        IN  /\ \A j \in DOMAIN call.Bbus : dTheta[call.vd[1]][j] = RZero
            /\ dTheta = SlackExcludedDTheta

\* C24: on a grid whose reduced matrix is regular, make_ptdf drops the
\* equation of the slack bus (rows pqpv of Bbus) and fixes the angle of bus 0
\* (columns 1..n-1): the row of dTheta of bus 0 is 0 for every injection
\* column, and the PTDF returned is the PTDF of the system with the slack
\* bus excluded, whichever index the slack bus has.
C24_AngleReferenceIsBusZero ==
    PtdfReturned =>
        LET dTheta == make_ptdf_dTheta(call.Bbus, call.pqpv, call.distribute_slack)
        IN  /\ \A j \in DOMAIN call.Bbus : dTheta[0][j] = RZero
            /\ result = SlackExcludedPtdf

\* a regular grid whose slack bus is not bus 0 and whose slack bus has a
\* non-zero row of dTheta
C24_Witness ==
    /\ PtdfReturned
    /\ call.vd # <<0>>
    /\ \E j \in DOMAIN call.Bbus :
          make_ptdf_dTheta(call.Bbus, call.pqpv, call.distribute_slack)[call.vd[1]][j] # RZero
    /\ \E k \in DOMAIN result : \E j \in DOMAIN call.Bbus : result[k][j] # RZero

\* ---------------------------------------------------------------------------
\* Claims on get_hvdc_data and the reference bus
\* ---------------------------------------------------------------------------

\* C25: get_hvdc_data never removes the reference bus: every bus whose
\* tentative type is Slack when get_hvdc_data starts is still Slack when it
\* returns, also when the bus is a terminal of an active HVDC link.
C25_HvdcKeepsSlack ==
    [][GetHvdcData =>
          \A b \in DOMAIN bus_types :
              bus_types[b] = BusModeSlack => bus_types'[b] = BusModeSlack]_vars

\* ---------------------------------------------------------------------------
\* Claims on the OTDF property of LinearAnalysis
\* ---------------------------------------------------------------------------

\* C26: over any sequence of run() calls and OTDF reads on one instance, the
\* matrix an OTDF read returns after a completed run() is make_otdf_max of
\* the PTDF and LODF of the most recent run(), also when run() is executed
\* again after OTDF was read once.
C26_OtdfFollowsLastRun ==
    pc = "otdf_read" =>
        result \in make_otdf_max(PTDF, LODF, numerical_circuit.nbr, numerical_circuit.nbus)

\* a returned limit that is a finite number >= 0
FiniteNonNegative(x) == x[2] # 0 /\ ~RLt(x, RZero)

\* C28: for finite inputs and a threshold >= 0, every branch m is returned
\* with atc_n[m] >= 0, atc_final[m] >= 0 and atc_final[m] <= atc_n[m]; no
\* returned limit is negative, infinite or NaN.
C28_LimitsSignedAndOrdered ==
    NtcReturned =>
        \A m \in BranchesN :
            /\ FiniteNonNegative(result.atc_n[m])
            /\ FiniteNonNegative(result.atc_final[m])
            /\ ~RGt(result.atc_final[m], result.atc_n[m])

\* a branch of negative sensitivity flowing against the exchange whose limit
\* is lowered by a contingency, with threshold 0
C28_Witness ==
    /\ NtcReturned
    /\ call.threshold = RZero
    /\ \E m \in BranchesN :
          /\ Relevant(m)
          /\ RLt(call.alpha[m], RZero)
          /\ RGt(call.flows[m], RZero)
          /\ RGt(result.atc_n[m], result.atc_final[m])
          /\ \E c \in Qualifying(m) : RLt(BetaOf(m, c), RZero)

\* C29: for every branch m, atc_limiting_contingency_branch[m] is m itself
\* (no contingency limits m; every branch the relevance test leaves out is
\* such a branch) or a qualifying contingency c # m whose limit is
\* atc_final[m]; atc_limiting_contingency_flow[m] is flows[m] exactly when
\* the identity is m.
C29_LimitingIdentity ==
    NtcReturned =>
        \A m \in BranchesN :
            LET lim == result.atc_limiting_contingency_branch[m]
            IN  /\ \/ lim = m
                   \/ /\ Relevant(m)
                      /\ lim \in Qualifying(m)
                      /\ result.atc_final[m] = LimitOf(m, lim)
                /\ ~Relevant(m) => lim = m
                /\ (result.atc_limiting_contingency_flow[m] = call.flows[m]) <=> (lim = m)

\* the identity of the branches that pass the relevance test
C29_RelevantIdentity ==
    NtcReturned =>
        \A m \in BranchesN :
            Relevant(m) =>
                LET lim == result.atc_limiting_contingency_branch[m]
                IN  \/ lim = m /\ result.atc_limiting_contingency_flow[m] = call.flows[m]
                    \/ /\ lim \in Qualifying(m)
                       /\ result.atc_final[m] = LimitOf(m, lim)
                       /\ result.atc_limiting_contingency_flow[m] = ContingencyFlowOf(m, lim)

\* ---------------------------------------------------------------------------
\* Claims on UPFC.change_base
\* ---------------------------------------------------------------------------

\* C30: change_base(Sbase_old, Sbase_new) multiplies each of Rs, Xs, Rsh and
\* Xsh by Sbase_new / Sbase_old exactly once, and change_base(a, b) followed
\* by change_base(b, a) restores the four values.
C30_ChangeBaseScalesOnce ==
    call.fn = "UPFC.change_base" =>
        /\ pc = "changed" =>
              LET b == Rat(call.Sbase_new, call.Sbase_old)
              IN  result = [Rs  |-> RMul(call.self.Rs, b),
                            Xs  |-> RMul(call.self.Xs, b),
                            Rsh |-> RMul(call.self.Rsh, b),
                            Xsh |-> RMul(call.self.Xsh, b)]
        /\ pc = "return" => result = call.self

\* ---------------------------------------------------------------------------
\* Claims on make_lodf_nx
\* ---------------------------------------------------------------------------

\* position in get_branches() of the branch of idtag tag
BranchIndexOf(tag) ==
    (CHOOSE i \in 1..Len(call.circuit.branches) : call.circuit.branches[i] = tag) - 1

\* ascending, duplicate-free branch indices of the contingencies of group g
GroupBranches(g) ==
    SortedSeq({BranchIndexOf(call.circuit.contingencies[k].device_idtag)
               : k \in {x \in DOMAIN call.circuit.contingencies :
                           call.circuit.contingencies[x].group =
                               call.circuit.contingency_groups[g].idtag}})

\* M[i, j] of group g
GroupM(g, i, j) ==
    IF i = j THEN ROne
    ELSE RNeg(call.lodf[GroupBranches(g)[i]][GroupBranches(g)[j]])

GroupMIsRegular(g) ==
    Det(Arr([i \in 1..Len(GroupBranches(g)) |-> Arr([j \in 1..Len(GroupBranches(g)) |->
            GroupM(g, i, j)])])) # RZero

LodfNxReturned ==
    /\ pc \in {"return", "return_again"} /\ call.fn = "make_lodf_nx"
    /\ \A g \in DOMAIN call.circuit.contingency_groups : GroupMIsRegular(g)

\* C22: when the M matrix of every group is regular, make_lodf_nx returns
\* one (c_idx, matrix) pair per contingency group, in the order of the
\* groups; c_idx is the ascending, duplicate-free list of the branch indices
\* of exactly the contingencies of the group, and the matrix X is L *
\* inverse(M), that is X * M = L with L the columns c_idx of LODF, M[i,i] = 1
\* and M[i,j] = -LODF[c_idx[i], c_idx[j]].  A second call on the same circuit
\* returns the same c_idx lists.
C22_GroupLodf ==
    LodfNxReturned =>
        /\ result.raised = ""
        /\ Len(result.lodf_nx_list) = Len(call.circuit.contingency_groups)
        /\ \A g \in DOMAIN call.circuit.contingency_groups :
              LET c_idx == result.lodf_nx_list[g].c_idx
                  X     == result.lodf_nx_list[g].lodf_nx
              IN  /\ c_idx = GroupBranches(g)
                  /\ result.groups[g].c_idx = c_idx
                  /\ DOMAIN X = DOMAIN call.lodf
                  /\ \A k \in DOMAIN call.lodf :
                        /\ DOMAIN X[k] = 1..Len(c_idx)
                        /\ \A j \in 1..Len(c_idx) :
                              RSum(Arr([i \in 1..Len(c_idx) |->
                                           RMul(X[k][i], GroupM(g, i, j))]),
                                   1..Len(c_idx)) = call.lodf[k][c_idx[j]]

\* a second call on two groups, one without contingencies and one whose
\* contingencies name two branches, out of order and one of them twice
C22_Witness ==
    /\ pc = "return_again" /\ call.fn = "make_lodf_nx"
    /\ result.raised = ""
    /\ Len(result.lodf_nx_list) = 2
    /\ result.lodf_nx_list[1].c_idx = <<>>
    /\ result.lodf_nx_list[2].c_idx = <<0, 2>>
    /\ Len(call.circuit.contingencies) = 3
    /\ call.circuit.contingencies[1].device_idtag = "b2"
    /\ call.circuit.contingencies[2].device_idtag = "b0"
    /\ \E k \in DOMAIN call.lodf : result.lodf_nx_list[2].lodf_nx[k][1] # call.lodf[k][0]

\* ---------------------------------------------------------------------------
\* Claims on the threaded drivers
\* ---------------------------------------------------------------------------
\* C23: in StochasticPowerFlowDriver and TimeSeriesClustering, once cancel()
\* has been called during run(), the iteration in flight completes and no
\* further iteration is started: at most one iteration (the one in flight,
\* or the one the loop was about to begin) is started after cancel()
C23_AtMostOneMore ==
    (call.driver # "VoltageCollapse" /\ result.cancelled) =>
        Cardinality(result.started_after_cancel) <= 1

\* C23 read to the letter: no iteration at all is started after cancel()
C23_CancelStopsIterations ==
    (call.driver # "VoltageCollapse" /\ result.cancelled) =>
        result.started_after_cancel = {}

\* C23_AtMostOneMore for TimeSeriesClustering alone
C23_ClusteringAtMostOneMore ==
    (call.driver = "TimeSeriesClustering" /\ result.cancelled) =>
        Cardinality(result.started_after_cancel) <= 1

\* C27: done_signal is never emitted more than once for a run, and has been
\* emitted exactly once when run() has returned
C27_DoneSignalOnce ==
    /\ result.done_signal <= 1
    /\ pc = "return" => result.done_signal = 1

\* C27 for the runs that are not cancelled
C27_DoneSignalOnceUncancelled ==
    ~result.cancelled =>
        /\ result.done_signal <= 1
        /\ pc = "return" => result.done_signal = 1

====
